---- MODULE Spec2Model ----
(***************************************************************************)
(* A model of the F1 telemetry pipeline of this repository:                *)
(*   - create_tyre_changes.py : the tyre-change deriver (a script that     *)
(*     walks every race session of the store and rewrites tyre_changes);   *)
(*   - scripts/load_f1_functional.py : transform_data and the full load;   *)
(*   - update_f1_data.py : the incremental update (safe_append).           *)
(* Tables are sets of rows (records); a DataFrame whose row order matters  *)
(* is a sequence of rows.                                                  *)
(***************************************************************************)
EXTENDS Integers, Sequences, FiniteSets, TLC

VARIABLES
    race_sessions,     \* store table race_sessions
    stints,            \* store table stints
    laps,              \* store table laps
    position,          \* store table position
    tyre_changes,      \* store table tyre_changes: [exists, rows]
    pc,                \* create_tyre_changes.py: "idle", "loop", "done", "aborted"
    keys,              \* create_tyre_changes.py: session keys still to visit
    record_summaries,  \* create_tyre_changes.py: one summary per visited session
    windows,           \* create_tyre_changes.py: locals of every appended record
    runs,              \* history: completed runs of the script over this store (0, 1, 2 = more)
    teams,             \* store table teams
    team_seasons,      \* store table team_seasons
    drivers_identity,  \* store table drivers_identity
    driver_sessions,   \* store table driver_sessions
    results,           \* store table results
    grids,             \* store table grids
    db_exists,         \* the store file holds the schema
    upstream,          \* OpenF1: the driver entries of every race session, lap-1 dates
    listed,            \* OpenF1: number of race sessions the sessions endpoint lists
    raw,               \* transform_data: its argument
    transformed,       \* transform_data: what the last call returned
    calls,             \* history: what the calls of transform_data on raw returned
    idle_updates,      \* history: update runs in a row that found no new race session (0, 1, 2 = more)
    net,               \* the extractor: its position, the current fetch, the time since the last request
    dag                \* f1_pipeline_dag.py: the task instances of one run and the store files they open

etlVars == <<teams, team_seasons, drivers_identity, driver_sessions, results, grids,
             db_exists, upstream, listed, raw, transformed, calls, idle_updates, net, dag>>

vars == <<race_sessions, stints, laps, position, tyre_changes, pc, keys,
          record_summaries, windows, runs, etlVars>>

---------------------------------------------------------------------------
(* Bounds of the model *)

MaxLap == 5
MaxSamples == 2
MaxStints == 3
MaxDriverRows == 3
MaxCalls == 2
MaxApiSessions == 2
MaxGridRows == 2

SessionKeys == {101, 102}
DriverNumbers == {1, 44}
Compounds == {"SOFT", "MEDIUM", "HARD", "INTERMEDIATE"}
PositionValues == {1, 2}

---------------------------------------------------------------------------
(* Values: floats are exact fractions num/den; NaN and None are distinct   *)
(* nulls (pandas mean() of nothing is NaN, never None); NaT is the null    *)
(* timestamp produced by to_datetime(errors="coerce").                     *)

NaN == [tag |-> "nan", num |-> 0, den |-> 0]
None == [tag |-> "none", num |-> 0, den |-> 0]
Float(n, d) == [tag |-> "float", num |-> n, den |-> d]
NaT == <<>>
At(t) == <<t>>

\* pd.notnull / the value is stored as SQL NULL
IsNull(x) == x.tag # "float"

\* float subtraction a - b; NaN propagates
FloatSub(a, b) ==
    IF a.tag # "float" \/ b.tag # "float" THEN NaN
    ELSE Float(a.num * b.den - b.num * a.den, a.den * b.den)

\* Python's builtin max and min on two numbers
Max2(a, b) == IF a >= b THEN a ELSE b
Min2(a, b) == IF a <= b THEN a ELSE b

RECURSIVE SortInts(_)
SortInts(S) ==
    IF S = {} THEN <<>>
    ELSE LET m == CHOOSE x \in S : \A y \in S : x <= y
         IN <<m>> \o SortInts(S \ {m})

RECURSIVE Flatten(_)
Flatten(ss) == IF ss = <<>> THEN <<>> ELSE Head(ss) \o Flatten(Tail(ss))

---------------------------------------------------------------------------
(* create_tyre_changes.py, per session                                     *)

\* stint_df.sort_values("stint_number")
RECURSIVE SortStints(_)
SortStints(S) ==
    IF S = {} THEN <<>>
    ELSE LET m == CHOOSE r \in S : \A q \in S : r.stint_number <= q.stint_number
         IN <<m>> \o SortStints(S \ {m})

\* merge_asof raises: the by-key driver_number of an empty frame read from
\* SQL has dtype object while a non-empty one is int64 (incompatible merge
\* keys), and a null timestamp in either key column is rejected.
MergeAsofRaises(L, P) ==
    \/ (L = {}) # (P = {})
    \/ \E l \in L : l.date_start = NaT
    \/ \E p \in P : p.date = NaT

\* direction="backward": the driver's last sample at or before the lap start
AsofPosition(l, P) ==
    LET cand == {p \in P : /\ p.driver_number = l.driver_number
                           /\ p.date[1] <= l.date_start[1]}
    IN IF cand = {} THEN NaN
       ELSE Float((CHOOSE p \in cand : \A q \in cand : q.date[1] <= p.date[1]).position, 1)

\* positions_with_lap: a left join, one row per lap
PositionsWithLap(L, P) ==
    {[driver_number |-> l.driver_number,
      lap_number |-> l.lap_number,
      position |-> AsofPosition(l, P)] : l \in L}

valid_types ==
    {"SOFT->MEDIUM", "MEDIUM->HARD", "HARD->SOFT",
     "SOFT->HARD", "MEDIUM->SOFT", "HARD->MEDIUM",
     "SOFT->SOFT", "MEDIUM->MEDIUM", "HARD->HARD"}

\* f"{old_comp}->{new_comp}"
ChangeType(old, new) == old.compound \o "->" \o new.compound

TyreChangeLap(old) == old.lap_end
LapsOnOldTyre(old) == old.lap_end - old.lap_start + 1
\* mutant: the cap of 5 laps forgotten
LapsOnNewTyreUncapped(new) == new.lap_end - new.lap_start + 1
LapsOnNewTyre(new) == Min2(5, new.lap_end - new.lap_start + 1)

\* driver_laps = positions_with_lap[positions_with_lap.driver_number == driver]
DriverLaps(pwl, driver) == {r \in pwl : r.driver_number = driver}

\* if driver_laps.empty: continue
DriverSkipped(pwl, driver) == DriverLaps(pwl, driver) = {}

MinLap(dl) == CHOOSE n \in {r.lap_number : r \in dl} : \A r \in dl : n <= r.lap_number
MaxLapOf(dl) == CHOOSE n \in {r.lap_number : r \in dl} : \A r \in dl : n >= r.lap_number

\* mutant: the lower bound not clamped to the driver's first lap
BeforeStartUnclamped(c, min_lap) == c - 1
BeforeStart(c, min_lap) == Max2(c - 1, min_lap)
BeforeEnd(c, max_lap) == Min2(c, max_lap)
\* mutant: the lap after the change lap not left out
AfterStartNoGap(c, min_lap) == Max2(c + 1, min_lap)
AfterStart(c, min_lap) == Max2(c + 2, min_lap)
\* mutant: the upper bound clamped one lap below the driver's last lap
AfterEndBelowLast(c, max_lap) == Min2(c + 5, max_lap - 1)
AfterEnd(c, max_lap) == Min2(c + 5, max_lap)

RECURSIVE SumPosition(_)
SumPosition(rows) ==
    IF rows = {} THEN 0
    ELSE LET r == CHOOSE x \in rows : TRUE
         IN r.position.num + SumPosition(rows \ {r})

\* driver_laps[(lap_number >= lo) & (lap_number <= hi)]["position"].mean()
MeanPosition(dl, lo, hi) ==
    LET sel == {r \in dl : r.lap_number >= lo /\ r.lap_number <= hi /\ ~IsNull(r.position)}
    IN IF sel = {} THEN NaN ELSE Float(SumPosition(sel), Cardinality(sel))

RECURSIVE SumDuration(_)
SumDuration(rows) ==
    IF rows = {} THEN 0
    ELSE LET r == CHOOSE x \in rows : TRUE
         IN r.lap_duration + SumDuration(rows \ {r})

\* laps[(driver_number == driver) & (lap_number >= lo) & (lap_number <= hi)]["lap_duration"].mean()
MeanDuration(L, driver, lo, hi) ==
    LET sel == {l \in L : l.driver_number = driver /\ l.lap_number >= lo /\ l.lap_number <= hi}
    IN IF sel = {} THEN NaN ELSE Float(SumDuration(sel), Cardinality(sel))

LapTimeChange(L, driver, c) ==
    LET before_laps == MeanDuration(L, driver, c - 1, c)
        after_laps == MeanDuration(L, driver, c + 2, c + 5)
    IN IF ~IsNull(before_laps) /\ ~IsNull(after_laps)
       THEN FloatSub(after_laps, before_laps) ELSE None

\* mutant: a missing mean counted as no change
PositionChangeZeroFill(pos_before, pos_after) ==
    IF IsNull(pos_before) \/ IsNull(pos_after) THEN Float(0, 1)
    ELSE FloatSub(pos_after, pos_before)

\* None if (pos_before is None or pos_after is None) else pos_after - pos_before
PositionChange(pos_before, pos_after) ==
    IF pos_before = None \/ pos_after = None THEN None
    ELSE FloatSub(pos_after, pos_before)

\* One pass of the body of "for i in range(len(stint_df) - 1)": the record it
\* appends (emit) together with the locals it was computed from.
PairStep(session_key, driver, old, new, L, pwl) ==
    LET change_type == ChangeType(old, new)
        c == TyreChangeLap(old)
        dl == DriverLaps(pwl, driver)
    IN IF change_type \notin valid_types \/ DriverSkipped(pwl, driver)
       THEN [emit |-> FALSE]
       ELSE LET min_lap == MinLap(dl)
                max_lap == MaxLapOf(dl)
                before_start == BeforeStart(c, min_lap)
                before_end == BeforeEnd(c, max_lap)
                after_start == AfterStart(c, min_lap)
                after_end == AfterEnd(c, max_lap)
                pos_before == MeanPosition(dl, before_start, before_end)
                pos_after == MeanPosition(dl, after_start, after_end)
            IN [emit |-> TRUE,
                row |-> [driver |-> driver,
                         change_type |-> change_type,
                         tyre_change_lap |-> c,
                         laps_on_old_tyre |-> LapsOnOldTyre(old),
                         laps_on_new_tyre |-> LapsOnNewTyre(new),
                         pos_before |-> pos_before,
                         pos_after |-> pos_after,
                         position_change |-> PositionChange(pos_before, pos_after),
                         lap_time_change |-> LapTimeChange(L, driver, c),
                         session_key |-> session_key],
                locals |-> [session_key |-> session_key, driver |-> driver,
                            old |-> old, new |-> new,
                            min_lap |-> min_lap, max_lap |-> max_lap,
                            before_start |-> before_start, before_end |-> before_end,
                            after_start |-> after_start, after_end |-> after_end]]

\* mutant: the loop stops one pair early
PairIndicesShort(stint_df) == 1 .. (Len(stint_df) - 2)

\* for i in range(len(stint_df) - 1): old = iloc[i], new = iloc[i + 1]
PairIndices(stint_df) == 1 .. (Len(stint_df) - 1)
NewIndex(i) == i + 1

RECURSIVE DriverSteps(_, _, _, _, _, _)
DriverSteps(session_key, driver, stint_df, i, L, pwl) ==
    IF i \notin PairIndices(stint_df) THEN <<>>
    ELSE LET st == PairStep(session_key, driver, stint_df[i], stint_df[NewIndex(i)], L, pwl)
         IN (IF st.emit THEN <<st>> ELSE <<>>)
            \o DriverSteps(session_key, driver, stint_df, i + 1, L, pwl)

\* for driver, stint_df in stints.groupby("driver_number"), ascending
RECURSIVE SessionSteps(_, _, _, _, _)
SessionSteps(session_key, drivers, S, L, pwl) ==
    IF drivers = <<>> THEN <<>>
    ELSE LET d == Head(drivers)
             stint_df == SortStints({r \in S : r.driver_number = d})
         IN DriverSteps(session_key, d, stint_df, 1, L, pwl)
            \o SessionSteps(session_key, Tail(drivers), S, L, pwl)

SessionStints(sk) == {r \in stints : r.session_key = sk}
SessionLaps(sk) == {r \in laps : r.session_key = sk}
SessionPosition(sk) == {r \in position : r.session_key = sk}

\* the appended steps of one session (merge_asof did not raise)
StepsOf(sk) ==
    LET S == SessionStints(sk)
        L == SessionLaps(sk)
        pwl == PositionsWithLap(L, SessionPosition(sk))
    IN SessionSteps(sk, SortInts({r.driver_number : r \in S}), S, L, pwl)

RowsOf(steps) == [k \in 1 .. Len(steps) |-> steps[k].row]
LocalsOf(steps) == [k \in 1 .. Len(steps) |-> steps[k].locals]

---------------------------------------------------------------------------
(* create_tyre_changes.py, the script                                      *)

\* lines 3-10: connect, read race_sessions, keys = session_key.unique()
Start ==
    /\ pc = "idle"
    /\ pc' = "loop"
    /\ keys' = SortInts({r.session_key : r \in race_sessions})
    /\ record_summaries' = <<>>
    /\ windows' = <<>>
    /\ UNCHANGED <<race_sessions, stints, laps, position, tyre_changes, runs, etlVars>>

\* lines 12-136: one pass of "for session_key in keys"
SessionOk ==
    /\ pc = "loop"
    /\ keys # <<>>
    /\ ~MergeAsofRaises(SessionLaps(Head(keys)), SessionPosition(Head(keys)))
    /\ LET steps == StepsOf(Head(keys))
       IN /\ record_summaries' = Append(record_summaries, RowsOf(steps))
          /\ windows' = windows \o LocalsOf(steps)
    /\ keys' = Tail(keys)
    /\ UNCHANGED <<race_sessions, stints, laps, position, tyre_changes, pc, runs, etlVars>>

\* lines 43-50: merge_asof raises, the script dies before anything is written
SessionAbort ==
    /\ pc = "loop"
    /\ keys # <<>>
    /\ MergeAsofRaises(SessionLaps(Head(keys)), SessionPosition(Head(keys)))
    /\ pc' = "aborted"
    /\ UNCHANGED <<race_sessions, stints, laps, position, tyre_changes, keys,
                   record_summaries, windows, runs, etlVars>>

\* mutant: the table is appended to instead of dropped
AppendWithoutDrop(old_table, frame) == [exists |-> TRUE, rows |-> old_table.rows \o frame]

\* DROP TABLE IF EXISTS tyre_changes, then to_sql creates and fills the table
DropAndWrite(old_table, frame) == [exists |-> TRUE, rows |-> frame]

\* lines 139-147: concat, DROP TABLE IF EXISTS, to_sql, commit
Persist ==
    /\ pc = "loop"
    /\ keys = <<>>
    /\ record_summaries # <<>>
    /\ tyre_changes' = DropAndWrite(tyre_changes, Flatten(record_summaries))
    /\ pc' = "done"
    /\ runs' = Min2(runs + 1, 2)
    /\ UNCHANGED <<race_sessions, stints, laps, position, keys, record_summaries, windows, etlVars>>

\* lines 139-142 with no session at all: the frame is pd.DataFrame(), without
\* columns; whether to_sql can create a table from it depends on the
\* library, so both outcomes are allowed. The DROP has already taken effect.
PersistEmptyFrame ==
    /\ pc = "loop"
    /\ keys = <<>>
    /\ record_summaries = <<>>
    /\ \/ /\ tyre_changes' = [exists |-> FALSE, rows |-> <<>>]
          /\ pc' = "aborted"
          /\ runs' = 0
       \/ /\ tyre_changes' = [exists |-> TRUE, rows |-> <<>>]
          /\ pc' = "done"
          /\ runs' = Min2(runs + 1, 2)
    /\ UNCHANGED <<race_sessions, stints, laps, position, keys, record_summaries, windows, etlVars>>

\* the script is started again (the DAG runs daily)
Rerun ==
    /\ pc \in {"done", "aborted"}
    /\ db_exists
    /\ pc' = "idle"
    /\ UNCHANGED <<race_sessions, stints, laps, position, tyre_changes, keys,
                   record_summaries, windows, runs, etlVars>>

NextDeriver == Start \/ SessionOk \/ SessionAbort \/ Persist \/ PersistEmptyFrame \/ Rerun

---------------------------------------------------------------------------
(* Stores the deriver is run on                                            *)

SessionRow(sk) == [session_key |-> sk, circuit_key |-> 1, year |-> 2023]

StintRows(sk, d, plan) ==
    {[session_key |-> sk, driver_number |-> d, stint_number |-> i,
      lap_start |-> plan[i][1], lap_end |-> plan[i][2], compound |-> plan[i][3]]
        : i \in 1 .. Len(plan)}

\* laps lo..hi, lap n starting at time n; the first lap's date_start may be null
LapRows(sk, d, lo, hi, null_first) ==
    {[session_key |-> sk, driver_number |-> d, lap_number |-> n,
      date_start |-> IF null_first /\ n = lo THEN NaT ELSE At(n),
      lap_duration |-> 90 + n] : n \in lo .. hi}

PosRows(sk, d, samples) ==
    {[session_key |-> sk, driver_number |-> d, date |-> At(x[1]), position |-> x[2]]
        : x \in samples}

\* contiguous stints from lap 1 ending at the laps of E, with compounds comp
PlanOf(E, comp) ==
    LET ends == SortInts(E)
    IN [i \in 1 .. Len(ends) |->
            <<IF i = 1 THEN 1 ELSE ends[i - 1] + 1, ends[i], comp[i]>>]

StintPlans ==
    UNION {{PlanOf(E, comp) : comp \in [1 .. Cardinality(E) -> Compounds]}
            : E \in {X \in SUBSET (1 .. MaxLap) : Cardinality(X) <= MaxStints}}

SamplePlans ==
    {X \in SUBSET ((0 .. MaxLap) \X PositionValues) :
        /\ Cardinality(X) <= MaxSamples
        /\ \A x, y \in X : x[1] = y[1] => x = y}

\* stint pairing: driver 44 runs any stint plan, driver 1 a fixed one
PairStores ==
    {[race_sessions |-> {SessionRow(101)},
      stints |-> StintRows(101, 44, plan)
                 \cup StintRows(101, 1, <<<<1, 2, "HARD">>, <<3, MaxLap, "SOFT">>>>),
      laps |-> LapRows(101, 44, 1, MaxLap, FALSE) \cup LapRows(101, 1, 1, MaxLap, FALSE),
      position |-> PosRows(101, 44, {<<0, 1>>}) \cup PosRows(101, 1, {<<0, 2>>})]
        : plan \in StintPlans}

\* windows: driver 44 changes tyres at lap c, seen on laps lo..hi, with any
\* position samples; driver 1 is always on track
WindowStores ==
    {[race_sessions |-> {SessionRow(101)},
      stints |-> StintRows(101, 44, <<<<1, c[1], "SOFT">>, <<c[1] + 1, MaxLap, "MEDIUM">>>>),
      laps |-> LapRows(101, 44, c[2], c[3], FALSE) \cup LapRows(101, 1, 1, MaxLap, FALSE),
      position |-> PosRows(101, 44, c[4]) \cup PosRows(101, 1, {<<0, 2>>})]
        : c \in {x \in (1 .. MaxLap - 1) \X (1 .. MaxLap) \X (0 .. MaxLap) \X SamplePlans
                    : x[3] >= x[2] - 1}}

\* several sessions, each driver with or without stints, laps and samples
CellOptions44 == BOOLEAN \X {"none", "all", "null_first"} \X BOOLEAN
CellOptions1 == {<<FALSE, "none", FALSE>>, <<TRUE, "all", TRUE>>}

CellStints(sk, d, o) ==
    IF o[1] THEN StintRows(sk, d, <<<<1, 2, "SOFT">>, <<3, MaxLap, "MEDIUM">>>>) ELSE {}
CellLaps(sk, d, o) ==
    IF o[2] = "none" THEN {} ELSE LapRows(sk, d, 1, MaxLap, o[2] = "null_first")
CellPosition(sk, d, o) ==
    IF o[3] THEN PosRows(sk, d, {<<0, 1>>, <<3, 2>>}) ELSE {}

SessionStores ==
    {[race_sessions |-> {SessionRow(sk) : sk \in ks},
      stints |-> UNION {CellStints(sk, 44, a[sk]) \cup CellStints(sk, 1, b[sk]) : sk \in ks},
      laps |-> UNION {CellLaps(sk, 44, a[sk]) \cup CellLaps(sk, 1, b[sk]) : sk \in ks},
      position |-> UNION {CellPosition(sk, 44, a[sk]) \cup CellPosition(sk, 1, b[sk]) : sk \in ks}]
        : ks \in {{}, {101}, SessionKeys},
          a \in [SessionKeys -> CellOptions44],
          b \in [SessionKeys -> CellOptions1]}

\* the end-to-end scenario: SOFT laps 1-20, MEDIUM laps 21-40, a position
\* sample at the start of every lap
ScenarioStores ==
    {[race_sessions |-> {SessionRow(101)},
      stints |-> StintRows(101, 44, <<<<1, 20, "SOFT">>, <<21, 40, "MEDIUM">>>>),
      laps |-> LapRows(101, 44, 1, 40, FALSE),
      position |-> PosRows(101, 44, {<<n, IF n <= 20 THEN 3 ELSE 2>> : n \in 1 .. 40})]}

\* what an earlier version of the store left in tyre_changes
StaleRow ==
    [driver |-> 44, change_type |-> "HARD->SOFT", tyre_change_lap |-> 3,
     laps_on_old_tyre |-> 3, laps_on_new_tyre |-> 2,
     pos_before |-> Float(4, 1), pos_after |-> Float(6, 2),
     position_change |-> Float(-2, 2), lap_time_change |-> None, session_key |-> 100]

StaleTables == {[exists |-> FALSE, rows |-> <<>>], [exists |-> TRUE, rows |-> <<StaleRow>>]}

InitDeriver ==
    /\ \E st \in PairStores \cup WindowStores \cup SessionStores \cup ScenarioStores :
          /\ race_sessions = st.race_sessions
          /\ stints = st.stints
          /\ laps = st.laps
          /\ position = st.position
          \* the one-session families start on a table an earlier run left
          /\ tyre_changes \in IF st \in SessionStores \cup ScenarioStores
                               THEN StaleTables
                               ELSE {[exists |-> TRUE, rows |-> <<StaleRow>>]}
    /\ pc = "idle"
    /\ keys = <<>>
    /\ record_summaries = <<>>
    /\ windows = <<>>
    /\ runs = 0
    /\ teams = {} /\ team_seasons = {} /\ drivers_identity = {} /\ driver_sessions = {}
    /\ results = {} /\ grids = {}
    /\ db_exists = TRUE
    /\ upstream = <<>> /\ listed = 0
    /\ raw = <<>> /\ transformed = <<>> /\ calls = <<>>
    /\ idle_updates = 0 /\ net = <<>> /\ dag = <<>>

SpecDeriver == InitDeriver /\ [][NextDeriver]_vars

---------------------------------------------------------------------------
(* Claims about the tyre-change deriver, stated over the store's tables    *)

Emitted == Flatten(record_summaries)
AllKeys == SortInts({r.session_key : r \in race_sessions})
Visited == {AllKeys[k] : k \in 1 .. Len(record_summaries)}
RowsFor(sk, d) ==
    {i \in 1 .. Len(Emitted) : Emitted[i].session_key = sk /\ Emitted[i].driver = d}

\* the log of locals runs parallel to the appended records
Aligned ==
    /\ Len(windows) = Len(Emitted)
    /\ \A i \in 1 .. Len(Emitted) :
          /\ windows[i].session_key = Emitted[i].session_key
          /\ windows[i].driver = Emitted[i].driver

DryCompounds == {"SOFT", "MEDIUM", "HARD"}
StintsOf(sk, d) == {r \in stints : r.session_key = sk /\ r.driver_number = d}
LapsOf(sk, d) == {l \in laps : l.session_key = sk /\ l.driver_number = d}
SamplesOf(sk, d) == {p \in position : p.session_key = sk /\ p.driver_number = d}

Adjacent(S) ==
    {p \in S \X S :
        /\ p[1].stint_number < p[2].stint_number
        /\ ~\E m \in S : /\ p[1].stint_number < m.stint_number
                         /\ m.stint_number < p[2].stint_number}
ValidPairs(S) ==
    {p \in Adjacent(S) : p[1].compound \in DryCompounds /\ p[2].compound \in DryCompounds}

FirstLap(sk, d) ==
    CHOOSE n \in {l.lap_number : l \in LapsOf(sk, d)} : \A l \in LapsOf(sk, d) : n <= l.lap_number
LastLap(sk, d) ==
    CHOOSE n \in {l.lap_number : l \in LapsOf(sk, d)} : \A l \in LapsOf(sk, d) : n >= l.lap_number

\* the position a lap is run in: the driver's latest sample not after its start
SamplesBefore(l) ==
    {p \in SamplesOf(l.session_key, l.driver_number) : p.date[1] <= l.date_start[1]}
PosAt(l) ==
    (CHOOSE p \in SamplesBefore(l) : \A q \in SamplesBefore(l) : q.date[1] <= p.date[1]).position
WindowLaps(sk, d, a, b) ==
    {l \in LapsOf(sk, d) : a <= l.lap_number /\ l.lap_number <= b /\ SamplesBefore(l) # {}}

RECURSIVE SumPosAt(_)
SumPosAt(W) ==
    IF W = {} THEN 0
    ELSE LET l == CHOOSE x \in W : TRUE IN PosAt(l) + SumPosAt(W \ {l})

IsMeanOf(x, W) ==
    IF W = {} THEN x = NaN
    ELSE x.tag = "float" /\ x.den > 0 /\ x.num * Cardinality(W) = SumPosAt(W) * x.den

BeforeWindow(sk, d, c) ==
    WindowLaps(sk, d, Max2(c - 1, FirstLap(sk, d)), Min2(c, LastLap(sk, d)))
AfterWindow(sk, d, c) ==
    WindowLaps(sk, d, Max2(c + 2, FirstLap(sk, d)), Min2(c + 5, LastLap(sk, d)))

\* C1: for every visited session and every driver with lap rows, each pair
\* of stints adjacent in stint_number order with both compounds in
\* {SOFT, MEDIUM, HARD} has exactly one record, and every record of the
\* driver belongs to such a pair (no other pair of stints is ever recorded);
\* a driver without lap rows has no record.
C1_PairsEmitted ==
    /\ Aligned
    /\ \A sk \in Visited, d \in DriverNumbers :
          IF LapsOf(sk, d) = {} THEN RowsFor(sk, d) = {}
          ELSE /\ \A p \in ValidPairs(StintsOf(sk, d)) :
                     Cardinality({i \in RowsFor(sk, d) :
                                     windows[i].old = p[1] /\ windows[i].new = p[2]}) = 1
               /\ \A i \in RowsFor(sk, d) :
                     /\ <<windows[i].old, windows[i].new>> \in ValidPairs(StintsOf(sk, d))
                     /\ Emitted[i].change_type
                          = windows[i].old.compound \o "->" \o windows[i].new.compound

\* three stints SOFT, SOFT, INTERMEDIATE: one record, for the same-compound pair
C1_Witness ==
    /\ pc = "done"
    /\ \E sk \in Visited :
          /\ Cardinality(StintsOf(sk, 44)) = 3
          /\ Cardinality(ValidPairs(StintsOf(sk, 44))) = 1
          /\ \E i \in RowsFor(sk, 44) : Emitted[i].change_type = "SOFT->SOFT"
          /\ \E r \in StintsOf(sk, 44) : r.stint_number = 3 /\ r.compound = "INTERMEDIATE"

IsScenario ==
    [race_sessions |-> race_sessions, stints |-> stints,
     laps |-> laps, position |-> position] \in ScenarioStores

\* C2: every record has tyre_change_lap = old.lap_end, laps_on_old_tyre =
\* old.lap_end - old.lap_start + 1 and laps_on_new_tyre = min(5, new.lap_end -
\* new.lap_start + 1); the store with stints SOFT 1-20, MEDIUM 21-40 and
\* positions for laps 1-40 ends with the single row SOFT->MEDIUM, 20, 20, 5.
C2_RowFields ==
    /\ Aligned
    /\ \A i \in 1 .. Len(Emitted) :
          LET old == windows[i].old
              new == windows[i].new
              n == new.lap_end - new.lap_start + 1
          IN /\ Emitted[i].tyre_change_lap = old.lap_end
             /\ Emitted[i].laps_on_old_tyre = old.lap_end - old.lap_start + 1
             /\ Emitted[i].laps_on_new_tyre = (IF n > 5 THEN 5 ELSE n)
    /\ (IsScenario /\ pc = "done") =>
          /\ Len(tyre_changes.rows) = 1
          /\ tyre_changes.rows[1].change_type = "SOFT->MEDIUM"
          /\ tyre_changes.rows[1].tyre_change_lap = 20
          /\ tyre_changes.rows[1].laps_on_old_tyre = 20
          /\ tyre_changes.rows[1].laps_on_new_tyre = 5

C2_Witness ==
    /\ IsScenario
    /\ pc = "done"
    /\ Len(tyre_changes.rows) = 1
    /\ tyre_changes.rows[1].laps_on_new_tyre = 5

\* C3: pos_before is the mean of the driver's lap positions over laps
\* max(c-1, min_lap) .. min(c, max_lap), pos_after the mean over laps
\* max(c+2, min_lap) .. min(c+5, max_lap) (NaN when no such lap has a
\* position), so lap c+1 is never part of pos_after.
C3_WindowMeans ==
    \A i \in 1 .. Len(Emitted) :
        LET r == Emitted[i]
        IN /\ IsMeanOf(r.pos_before, BeforeWindow(r.session_key, r.driver, r.tyre_change_lap))
           /\ IsMeanOf(r.pos_after, AfterWindow(r.session_key, r.driver, r.tyre_change_lap))

\* a record whose lap c+1 has a position that differs from pos_after, with
\* the after window cut short by the driver's last lap
C3_Witness ==
    \E i \in 1 .. Len(Emitted) :
        LET r == Emitted[i]
            c == r.tyre_change_lap
        IN /\ r.pos_after.tag = "float"
           /\ r.pos_before.tag = "float"
           /\ LastLap(r.session_key, r.driver) < c + 5
           /\ \E l \in LapsOf(r.session_key, r.driver) :
                 /\ l.lap_number = c + 1
                 /\ SamplesBefore(l) # {}
                 /\ PosAt(l) * r.pos_after.den # r.pos_after.num

\* C4 (as claimed): a driver without any position sample in a session has
\* no record in that session.
C4_NoSamplesNoRows ==
    \A sk \in Visited, d \in DriverNumbers :
        SamplesOf(sk, d) = {} => RowsFor(sk, d) = {}

\* C5: position_change is pos_after - pos_before when both windows hold a
\* position, and is null (neither zero nor any number) when either holds none.
C5_PositionChange ==
    \A i \in 1 .. Len(Emitted) :
        LET r == Emitted[i]
            pb == r.pos_before
            pa == r.pos_after
            ch == r.position_change
        IN IF /\ BeforeWindow(r.session_key, r.driver, r.tyre_change_lap) # {}
              /\ AfterWindow(r.session_key, r.driver, r.tyre_change_lap) # {}
           THEN /\ ch.tag = "float"
                /\ ch.den # 0
                /\ ch.num * (pa.den * pb.den) = (pa.num * pb.den - pb.num * pa.den) * ch.den
           ELSE ch.tag # "float"

\* a record with positions before the change and none after it
C5_Witness ==
    \E i \in 1 .. Len(Emitted) :
        LET r == Emitted[i]
        IN /\ BeforeWindow(r.session_key, r.driver, r.tyre_change_lap) # {}
           /\ AfterWindow(r.session_key, r.driver, r.tyre_change_lap) = {}
           /\ r.pos_before.tag = "float"
           /\ IsNull(r.position_change)

\* C6: the lower bound of the before window is never below the driver's
\* first observed lap and never negative; with change lap 1 and first lap 1
\* it is 1.
C6_BeforeStartClamped ==
    /\ Aligned
    /\ \A i \in 1 .. Len(windows) :
          LET w == windows[i]
              first == FirstLap(w.session_key, w.driver)
          IN /\ w.before_start >= first
             /\ w.before_start >= 0
             /\ (w.old.lap_end = 1 /\ first = 1) => w.before_start = 1

C6_Witness ==
    \E i \in 1 .. Len(windows) :
        /\ windows[i].old.lap_end = 1
        /\ FirstLap(windows[i].session_key, windows[i].driver) = 1
        /\ windows[i].before_start = 1

\* C7: a run that completes leaves in tyre_changes exactly the records of
\* that run, all of sessions of the store, and a completed run over a store
\* that a completed run has already written leaves the table as it was.
C7_TableReplaced ==
    [][(pc = "loop" /\ pc' = "done") =>
          /\ tyre_changes'.exists
          /\ tyre_changes'.rows = Flatten(record_summaries)
          /\ \A i \in 1 .. Len(tyre_changes'.rows) :
                tyre_changes'.rows[i].session_key \in {r.session_key : r \in race_sessions}
          /\ (runs >= 1 => tyre_changes' = tyre_changes)]_vars

\* the second completed run over a store whose table held a stale row
C7_Witness ==
    /\ pc = "done"
    /\ runs = 2
    /\ tyre_changes.rows # <<>>
    /\ \A i \in 1 .. Len(tyre_changes.rows) : tyre_changes.rows[i] # StaleRow

NoStintsOrNoLaps(sk) == SessionStints(sk) = {} \/ SessionLaps(sk) = {}

\* C8 (as claimed): a session without stint rows or without lap rows adds
\* no record and never stops the run.
C8_EmptySessionHarmless ==
    /\ \A k \in 1 .. Len(record_summaries) :
          NoStintsOrNoLaps(AllKeys[k]) => record_summaries[k] = <<>>
    /\ (pc = "aborted" /\ keys # <<>>) => ~NoStintsOrNoLaps(Head(keys))

---------------------------------------------------------------------------
(* pandas helpers: a DataFrame whose row order matters is a sequence       *)

\* DataFrame.drop_duplicates(): the first of equal rows is kept
RECURSIVE DropDuplicatesFrom(_, _)
DropDuplicatesFrom(frame, seen) ==
    IF frame = <<>> THEN <<>>
    ELSE IF Head(frame) \in seen THEN DropDuplicatesFrom(Tail(frame), seen)
         ELSE <<Head(frame)>> \o DropDuplicatesFrom(Tail(frame), seen \cup {Head(frame)})

DropDuplicates(frame) == DropDuplicatesFrom(frame, {})

\* lexicographic order on integer tuples of one length
KeyLess(a, b) ==
    \E k \in 1 .. Len(a) : a[k] < b[k] /\ \A m \in 1 .. (k - 1) : a[m] = b[m]

\* DataFrame.sort_values([...]) on several columns, a stable sort: sortkeys
\* runs parallel to frame
SortValues(frame, sortkeys) ==
    LET n == Len(frame)
        rank(i) == 1 + Cardinality({j \in 1 .. n :
                        \/ KeyLess(sortkeys[j], sortkeys[i])
                        \/ (sortkeys[j] = sortkeys[i] /\ j < i)})
    IN [p \in 1 .. n |-> frame[CHOOSE i \in 1 .. n : rank(i) = p]]

\* a nullable integer is <<>> (NaN) or <<n>>; NaN sorts last
NullableKey(x) == IF x = <<>> THEN <<1, 0>> ELSE <<0, x[1]>>

\* str.strip() on a string, held as a sequence of characters
RECURSIVE LStrip(_)
LStrip(str) == IF str # <<>> /\ Head(str) = " " THEN LStrip(Tail(str)) ELSE str

RECURSIVE RStrip(_)
RStrip(str) ==
    IF str # <<>> /\ str[Len(str)] = " " THEN RStrip(SubSeq(str, 1, Len(str) - 1)) ELSE str

Strip(str) == RStrip(LStrip(str))

\* str.lower() on a hex colour, held as a sequence of characters
LowerChar(ch) ==
    CASE ch = "A" -> "a" [] ch = "B" -> "b" [] ch = "C" -> "c"
      [] ch = "D" -> "d" [] ch = "E" -> "e" [] ch = "F" -> "f"
      [] OTHER -> ch

Lower(str) == [i \in DOMAIN str |-> LowerChar(str[i])]

---------------------------------------------------------------------------
(* scripts/load_f1_functional.py, transform_data                           *)

TEAM_LINEAGE ==
    ("Red Bull Racing" :> 1) @@ ("Mercedes" :> 2) @@ ("Ferrari" :> 3) @@ ("McLaren" :> 4)
    @@ ("Alpine" :> 5) @@ ("Aston Martin" :> 6) @@ ("Williams" :> 7) @@ ("Haas F1 Team" :> 8)
    @@ ("AlphaTauri" :> 9) @@ ("RB" :> 9) @@ ("Racing Bulls" :> 9)
    @@ ("Alfa Romeo" :> 10) @@ ("Kick Sauber" :> 10)

\* teams.merge(lineage_df, on="team_name", how="left"): NaN for an unlisted name
LineageId(team_name) ==
    IF team_name \in DOMAIN TEAM_LINEAGE THEN <<TEAM_LINEAGE[team_name]>> ELSE <<>>

\* drivers.merge(race_sessions[["session_key", "year"]], how="left"); the
\* drivers frame was filtered to the listed race sessions, so the year is found
YearOf(race_df, sk) ==
    race_df[CHOOSE i \in DOMAIN race_df : race_df[i].session_key = sk].year

teams_frame(race_df, drivers_df) ==
    DropDuplicates([i \in DOMAIN drivers_df |->
        [team_name |-> drivers_df[i].team_name,
         team_colour |-> Lower(drivers_df[i].team_colour),
         year |-> YearOf(race_df, drivers_df[i].session_key)]])

teams_with_id(t) ==
    [i \in DOMAIN t |->
        [team_name |-> t[i].team_name, team_colour |-> t[i].team_colour,
         year |-> t[i].year, team_id |-> LineageId(t[i].team_name)]]

\* sort_values(["team_id", "year"])
SortTeamYear(frame) ==
    SortValues(frame, [i \in DOMAIN frame |->
        NullableKey(frame[i].team_id) \o <<frame[i].year>>])

\* mutant: the first row of every team_id is kept
teams_clean_head(t) ==
    LET ids == SortInts({t[i].team_id[1] : i \in {j \in DOMAIN t : t[j].team_id # <<>>}})
        first(id) == t[CHOOSE i \in DOMAIN t :
                        /\ t[i].team_id = <<id>>
                        /\ \A j \in DOMAIN t : t[j].team_id = <<id>> => i <= j]
    IN [k \in DOMAIN ids |->
        [team_id |-> ids[k], team_name |-> first(ids[k]).team_name,
         team_colour |-> first(ids[k]).team_colour]]

\* groupby("team_id").tail(1) of the sorted frame t: the last row of every
\* team_id; rows without a team_id belong to no group
teams_clean(t) ==
    LET ids == SortInts({t[i].team_id[1] : i \in {j \in DOMAIN t : t[j].team_id # <<>>}})
        last(id) == t[CHOOSE i \in DOMAIN t :
                        /\ t[i].team_id = <<id>>
                        /\ \A j \in DOMAIN t : t[j].team_id = <<id>> => j <= i]
    IN [k \in DOMAIN ids |->
        [team_id |-> ids[k], team_name |-> last(ids[k]).team_name,
         team_colour |-> last(ids[k]).team_colour]]

\* teams_with_id[["team_id", "team_name", "year", "team_colour"]].drop_duplicates()
team_seasons_rows(twi) ==
    DropDuplicates([i \in DOMAIN twi |->
        [team_id |-> twi[i].team_id, team_name |-> twi[i].team_name,
         year |-> twi[i].year, team_colour |-> twi[i].team_colour]])

\* drivers.merge(team_seasons, on=["team_name"], how="left"): a driver row
\* is repeated for every season row of its team name
drivers_merge(drivers_df, ts) ==
    LET joined(d) ==
            LET m == SelectSeq(ts, LAMBDA x : x.team_name = d.team_name)
            IN [k \in DOMAIN m |->
                [driver_number |-> d.driver_number, session_key |-> d.session_key,
                 full_name |-> d.full_name, broadcast_name |-> d.broadcast_name,
                 name_acronym |-> d.name_acronym,
                 team_id |-> m[k].team_id, year |-> m[k].year]]
    IN Flatten([i \in DOMAIN drivers_df |-> joined(drivers_df[i])])

\* drivers_merge[[...]].drop_duplicates()
drivers_rows(dm) ==
    DropDuplicates([i \in DOMAIN dm |->
        [driver_number |-> dm[i].driver_number,
         broadcast_name |-> dm[i].broadcast_name,
         full_name |-> dm[i].full_name,
         name_acronym |-> dm[i].name_acronym,
         team_id |-> dm[i].team_id, year |-> dm[i].year]])

\* sort_values(["driver_number", "team_id", "year"])
SortDriverTeamYear(frame) ==
    SortValues(frame, [i \in DOMAIN frame |->
        <<frame[i].driver_number>> \o NullableKey(frame[i].team_id) \o <<frame[i].year>>])

\* mutant: only leading whitespace is removed
NormalizeNameLeftOnly(str) == LStrip(str)

\* drivers_clean[col].astype(str).str.strip()
NormalizeName(str) == Strip(str)

drivers_clean(sorted) ==
    [i \in DOMAIN sorted |->
        [driver_number |-> sorted[i].driver_number,
         broadcast_name |-> NormalizeName(sorted[i].broadcast_name),
         full_name |-> NormalizeName(sorted[i].full_name),
         name_acronym |-> NormalizeName(sorted[i].name_acronym),
         team_id |-> sorted[i].team_id, year |-> sorted[i].year]]

NameTuple(row) ==
    [full_name |-> row.full_name, broadcast_name |-> row.broadcast_name,
     name_acronym |-> row.name_acronym]

\* drivers_clean[[names]].drop_duplicates()
identity_rows(dc) == DropDuplicates([i \in DOMAIN dc |-> NameTuple(dc[i])])

\* reset_index(); driver_id = index + 1
drivers_identity_frame(u) ==
    [i \in DOMAIN u |->
        [full_name |-> u[i].full_name, broadcast_name |-> u[i].broadcast_name,
         name_acronym |-> u[i].name_acronym, driver_id |-> i]]

\* drivers_merge.merge(drivers_identity, on=[names], how="left"): the names
\* of drivers_merge are as received, NaN where no identity row has them
driver_sessions_frame(dm, ident) ==
    LET id_of(row) ==
            LET m == {i \in DOMAIN ident : NameTuple(ident[i]) = NameTuple(row)}
            IN IF m = {} THEN <<>> ELSE <<ident[CHOOSE i \in m : TRUE].driver_id>>
    IN DropDuplicates([i \in DOMAIN dm |->
        [driver_number |-> dm[i].driver_number, session_key |-> dm[i].session_key,
         team_id |-> dm[i].team_id, driver_id |-> id_of(dm[i])]])

\* a flag of session_result as received: True, False or None (JSON null)
Flags == {"True", "False", "None"}

\* the truth value of x in "dnf" if x else "finish"
Truthy(x) == x = "True"

\* x == True
EqualsTrue(x) == x = "True"

\* pd.to_numeric(x, errors="coerce").astype("Int64") of a received value
\* [tag, val]: an integer stays, null and text become <NA>
ToInt64(x) == IF x.tag = "int" THEN <<x.val>> ELSE <<>>

\* results["dnf"].apply(lambda x: "dnf" if x else "finish")
StatusFromDnf(row) == IF Truthy(row.dnf) THEN "dnf" ELSE "finish"

\* mutant: the dns overwrite comes after the dsq overwrite
ResultStatusDnsLast(row) ==
    LET after_dsq == IF EqualsTrue(row.dsq) THEN "dsq" ELSE StatusFromDnf(row)
    IN IF EqualsTrue(row.dns) THEN "dns" ELSE after_dsq

\* the two overwrites: rows with dns == True, then rows with dsq == True
ResultStatus(row) ==
    LET after_dns == IF EqualsTrue(row.dns) THEN "dns" ELSE StatusFromDnf(row)
    IN IF EqualsTrue(row.dsq) THEN "dsq" ELSE after_dns

\* the local frame results once its status column is set
results_frame(results_df) ==
    [i \in DOMAIN results_df |->
        [session_key |-> results_df[i].session_key,
         driver_number |-> results_df[i].driver_number,
         position |-> ToInt64(results_df[i].position),
         number_of_laps |-> ToInt64(results_df[i].number_of_laps),
         points |-> ToInt64(results_df[i].points),
         duration |-> results_df[i].duration,
         gap_to_leader |-> results_df[i].gap_to_leader,
         dnf |-> results_df[i].dnf, dns |-> results_df[i].dns, dsq |-> results_df[i].dsq,
         status |-> ResultStatus(results_df[i])]]

\* results[[the ten columns]]
results_clean(res) ==
    [i \in DOMAIN res |->
        [session_key |-> res[i].session_key, position |-> res[i].position,
         driver_number |-> res[i].driver_number,
         number_of_laps |-> res[i].number_of_laps, points |-> res[i].points,
         duration |-> res[i].duration, gap_to_leader |-> res[i].gap_to_leader,
         dnf |-> res[i].dnf, dns |-> res[i].dns, dsq |-> res[i].dsq]]

\* session_name.str.lower()
LowerName(name) ==
    CASE name = "Race" -> "race" [] name = "RACE" -> "race"
      [] name = "Qualifying" -> "qualifying" [] OTHER -> name

\* drop_duplicates("meeting_key"): the first row of every meeting
RECURSIVE FirstPerMeeting(_, _)
FirstPerMeeting(frame, seen) ==
    IF frame = <<>> THEN <<>>
    ELSE IF Head(frame).meeting_key \in seen THEN FirstPerMeeting(Tail(frame), seen)
         ELSE <<Head(frame)>>
              \o FirstPerMeeting(Tail(frame), seen \cup {Head(frame).meeting_key})

race_map(race_df) ==
    LET races == SelectSeq(race_df, LAMBDA x : LowerName(x.session_name) = "race")
    IN FirstPerMeeting([i \in DOMAIN races |->
            [meeting_key |-> races[i].meeting_key,
             race_session_key |-> races[i].session_key]], {})

\* grid.merge(race_map, on="meeting_key", how="left"), session_key replaced
\* by race_session_key (NaN for a meeting race_map does not hold); the grid
\* rows come with a meeting_key
grids_clean(grid_df, rmap) ==
    [i \in DOMAIN grid_df |->
        [position |-> grid_df[i].position,
         driver_number |-> grid_df[i].driver_number,
         session_key |->
            LET hit == {k \in DOMAIN rmap : rmap[k].meeting_key = grid_df[i].meeting_key}
            IN IF hit = {} THEN <<>> ELSE <<rmap[CHOOSE k \in hit : TRUE].race_session_key>>]]

race_sessions_clean(race_df) ==
    [i \in DOMAIN race_df |->
        [session_key |-> race_df[i].session_key,
         circuit_key |-> race_df[i].circuit_key,
         year |-> race_df[i].year]]

\* the columns of a frame; pd.DataFrame(), the frame extraction builds when
\* nothing was fetched, has none
Columns(frame) == IF frame = <<>> THEN {} ELSE DOMAIN frame[1]

\* the columns of race_map
race_map_columns == {"meeting_key", "race_session_key"}

\* the columns transform_data reads of results without a guard
results_columns ==
    {"position", "number_of_laps", "points", "dnf", "dns", "dsq",
     "session_key", "driver_number", "duration", "gap_to_leader"}

\* if "meeting_key" in X.columns: X.drop(columns=["meeting_key"]) else X
drop_meeting_key(table) ==
    {IF "meeting_key" \in DOMAIN r
     THEN [c \in DOMAIN r \ {"meeting_key"} |-> r[c]] ELSE r : r \in table}

\* the KeyError that ends transform_data: a column of results that is not
\* there, or, for a grid without meeting_key, the merge on session_key,
\* a column race_map does not have
transform_raises(input) ==
    IF ~(results_columns \subseteq Columns(input.results)) THEN "KeyError"
    ELSE IF "meeting_key" \in Columns(input.grid) THEN "none"
    ELSE IF "session_key" \in Columns(input.grid) /\ "session_key" \in race_map_columns
         THEN "none"
    ELSE "KeyError"

\* Bind names a local variable: its value is computed once
transform_data(input) ==
    LET Bind(value, Body(_)) == CHOOSE out \in {Body(x) : x \in {value}} : TRUE
    IN
    Bind(input, LAMBDA frames :
    Bind(teams_with_id(teams_frame(frames.race_sessions, frames.drivers)), LAMBDA twi :
    Bind(SortTeamYear(twi), LAMBDA twi_sorted :
    Bind(team_seasons_rows(twi), LAMBDA ts_rows :
    Bind(SortTeamYear(ts_rows), LAMBDA ts :
    Bind(drivers_merge(frames.drivers, ts), LAMBDA dm :
    Bind(drivers_rows(dm), LAMBDA d_rows :
    Bind(SortDriverTeamYear(d_rows), LAMBDA d_sorted :
    Bind(drivers_clean(d_sorted), LAMBDA dc :
    Bind(identity_rows(dc), LAMBDA id_rows :
    Bind(drivers_identity_frame(id_rows), LAMBDA ident :
    Bind(results_frame(frames.results), LAMBDA res :
    Bind(race_map(frames.race_sessions), LAMBDA rmap :
        [race_sessions |-> race_sessions_clean(frames.race_sessions),
         teams |-> teams_clean(twi_sorted),
         team_seasons |-> ts,
         drivers_identity |-> ident,
         driver_sessions |-> driver_sessions_frame(dm, ident),
         results |-> results_clean(res),
         grids |-> grids_clean(frames.grid, rmap),
         stints |-> drop_meeting_key(frames.stints),
         laps |-> drop_meeting_key(frames.laps),
         position |-> drop_meeting_key(frames.position)])))))))))))))

\* the locals of transform_data that it does not return
transform_locals(input) == [results |-> results_frame(input.results)]

---------------------------------------------------------------------------
(* transform_data applied to bounded driver inputs                         *)

TransformSessions ==
    <<[session_key |-> 101, meeting_key |-> 1, circuit_key |-> 1, year |-> 2023,
       session_name |-> "Race"],
      [session_key |-> 102, meeting_key |-> 2, circuit_key |-> 2, year |-> 2024,
       session_name |-> "Race"]>>

\* name tuples as received, with the car number: one driver on two cars,
\* the same driver with surrounding whitespace, and a different driver
ReceivedNames ==
    {[driver_number |-> 1,
      full_name |-> <<"A">>, broadcast_name |-> <<"X">>, name_acronym |-> <<"K">>],
     [driver_number |-> 44,
      full_name |-> <<"A">>, broadcast_name |-> <<"X">>, name_acronym |-> <<"K">>],
     [driver_number |-> 44,
      full_name |-> <<"A", " ">>, broadcast_name |-> <<" ", "X">>, name_acronym |-> <<"K">>],
     [driver_number |-> 1,
      full_name |-> <<"A">>, broadcast_name |-> <<"X">>, name_acronym |-> <<"L">>]}

ReceivedEntries ==
    {[session_key |-> 101, team_name |-> "Ferrari", team_colour |-> <<"E", "8">>],
     [session_key |-> 102, team_name |-> "Ferrari", team_colour |-> <<"e", "8">>],
     [session_key |-> 102, team_name |-> "RB", team_colour |-> <<"6", "6">>]}

DriverRow(names, entry) ==
    [session_key |-> entry.session_key, driver_number |-> names.driver_number,
     full_name |-> names.full_name, broadcast_name |-> names.broadcast_name,
     name_acronym |-> names.name_acronym,
     team_name |-> entry.team_name, team_colour |-> entry.team_colour]

ReceivedDriverRows ==
    {DriverRow(names, entry) : names \in ReceivedNames, entry \in ReceivedEntries}

\* a row of session_result: a classified driver has a position, one who
\* did not finish or start has none, a disqualified one a text
ReceivedResult(sk, d, dnf, dns, dsq) ==
    [session_key |-> sk, driver_number |-> d,
     position |-> IF dsq = "True" THEN [tag |-> "text", val |-> 0]
                  ELSE IF dnf = "True" \/ dns = "True" THEN [tag |-> "null", val |-> 0]
                  ELSE [tag |-> "int", val |-> IF d = 1 THEN 1 ELSE 2],
     number_of_laps |-> [tag |-> "int", val |-> 3],
     points |-> [tag |-> "int", val |-> IF d = 1 THEN 25 ELSE 18],
     duration |-> 5400 + d, gap_to_leader |-> IF d = 1 THEN "0" ELSE "+1.5",
     dnf |-> dnf, dns |-> dns, dsq |-> dsq]

\* a row of starting_grid, fetched under session key sk, of meeting mk
ReceivedGridRow(sk, mk, d) ==
    [position |-> IF d = 1 THEN 1 ELSE 2, driver_number |-> d,
     session_key |-> sk, meeting_key |-> mk]

DefaultResults == <<ReceivedResult(101, 1, "False", "False", "False")>>
DefaultGrid == <<ReceivedGridRow(101, 1, 1)>>

RawInputs ==
    {[race_sessions |-> TransformSessions, drivers |-> rows,
      results |-> DefaultResults, grid |-> DefaultGrid,
      stints |-> {}, laps |-> {}, position |-> {}]
        : rows \in UNION {[1 .. n -> ReceivedDriverRows] : n \in 0 .. MaxDriverRows}}

\* team entries as received: one lineage under three names over two years,
\* a colour in upper and in lower case, and a name TEAM_LINEAGE does not list
ReceivedTeamEntries ==
    {[session_key |-> 101, team_name |-> "AlphaTauri", team_colour |-> <<"A", "1">>],
     [session_key |-> 102, team_name |-> "RB", team_colour |-> <<"B", "2">>],
     [session_key |-> 102, team_name |-> "RB", team_colour |-> <<"b", "2">>],
     [session_key |-> 102, team_name |-> "Racing Bulls", team_colour |-> <<"C", "3">>],
     [session_key |-> 101, team_name |-> "Ferrari", team_colour |-> <<"E", "8">>],
     [session_key |-> 102, team_name |-> "Andretti", team_colour |-> <<"D", "4">>]}

ReceivedTeamRows ==
    {DriverRow([driver_number |-> 1, full_name |-> <<"A">>, broadcast_name |-> <<"X">>,
                name_acronym |-> <<"K">>], entry) : entry \in ReceivedTeamEntries}

TeamInputs ==
    {[race_sessions |-> TransformSessions, drivers |-> rows,
      results |-> DefaultResults, grid |-> DefaultGrid,
      stints |-> {}, laps |-> {}, position |-> {}]
        : rows \in UNION {[1 .. n -> ReceivedTeamRows] : n \in 0 .. MaxDriverRows}}

DefaultDrivers ==
    <<DriverRow([driver_number |-> 1, full_name |-> <<"A">>, broadcast_name |-> <<"X">>,
                 name_acronym |-> <<"K">>],
                [session_key |-> 101, team_name |-> "Ferrari", team_colour |-> <<"E", "8">>])>>

\* results of session 101: car 1, or cars 1 and 44, under every combination
\* of the three flags
ResultFrames ==
    {<<ReceivedResult(101, 1, f[1], f[2], f[3])>> : f \in Flags \X Flags \X Flags}
    \cup {<<ReceivedResult(101, 1, f[1], f[2], f[3]), ReceivedResult(101, 44, g[1], g[2], g[3])>>
            : f \in Flags \X Flags \X Flags, g \in Flags \X Flags \X Flags}

ResultInputs ==
    {[race_sessions |-> TransformSessions, drivers |-> DefaultDrivers,
      results |-> res, grid |-> DefaultGrid,
      stints |-> {}, laps |-> {}, position |-> {}] : res \in ResultFrames}

\* starting_grid rows as fetched: under the race key and under the qualifying
\* key of meeting 1, under the qualifying key of meeting 2, and under the
\* qualifying key of meeting 3, whose race the sessions endpoint does not list
ReceivedGridRows ==
    {ReceivedGridRow(o[1], o[2], d) :
        o \in {<<101, 1>>, <<201, 1>>, <<202, 2>>, <<203, 3>>}, d \in DriverNumbers}

GridInputs ==
    {[race_sessions |-> TransformSessions, drivers |-> DefaultDrivers,
      results |-> DefaultResults, grid |-> rows,
      stints |-> {}, laps |-> {}, position |-> {}]
        : rows \in UNION {[1 .. n -> ReceivedGridRows] : n \in 1 .. MaxGridRows}}

\* a stint row as the endpoint sends it, with the key of its meeting
StintWithMeeting ==
    [session_key |-> 101, meeting_key |-> 1, driver_number |-> 1, stint_number |-> 1,
     lap_start |-> 1, lap_end |-> 3, compound |-> "SOFT"]

WithoutMeeting(r) == [c \in DOMAIN r \ {"meeting_key"} |-> r[c]]

\* inputs with a table that is empty or has no meeting_key: no result or
\* no grid row fetched, grid rows and stint rows without the column
SparseInputs ==
    {[race_sessions |-> TransformSessions, drivers |-> DefaultDrivers,
      results |-> res, grid |-> g,
      stints |-> st, laps |-> {}, position |-> {}]
        : res \in {DefaultResults, <<>>},
          g \in {DefaultGrid, <<>>, <<WithoutMeeting(ReceivedGridRow(201, 1, 1))>>},
          st \in {{}, {StintWithMeeting}, {WithoutMeeting(StintWithMeeting)}}}

\* nothing of the store or of the deriver moves
StoreAtRest ==
    /\ race_sessions = {} /\ stints = {} /\ laps = {} /\ position = {}
    /\ tyre_changes = [exists |-> FALSE, rows |-> <<>>]
    /\ pc = "done" /\ keys = <<>> /\ record_summaries = <<>> /\ windows = <<>>
    /\ runs = 0
    /\ teams = {} /\ team_seasons = {} /\ drivers_identity = {} /\ driver_sessions = {}
    /\ results = {} /\ grids = {}
    /\ db_exists = FALSE
    /\ idle_updates = 0

InitTransform ==
    /\ StoreAtRest
    /\ upstream = <<>> /\ listed = 0
    /\ raw \in RawInputs \cup TeamInputs \cup ResultInputs \cup GridInputs \cup SparseInputs
    /\ transformed = <<>>
    /\ calls = <<>>
    /\ net = <<>> /\ dag = <<>>

\* what is left in place of the tables when transform_data raises
Raised(error) == [raised |-> error]

\* transformed = transform_data(raw); nothing is returned when it raises
Transform ==
    /\ Len(calls) < MaxCalls
    /\ IF transform_raises(raw) = "none"
       THEN /\ transformed' = transform_data(raw)
            /\ calls' = Append(calls, [returned |-> transformed',
                                       locals |-> transform_locals(raw)])
       ELSE /\ transformed' = Raised(transform_raises(raw))
            /\ calls' = calls
    /\ UNCHANGED <<race_sessions, stints, laps, position, tyre_changes, pc, keys,
                   record_summaries, windows, runs, teams, team_seasons,
                   drivers_identity, driver_sessions, results, grids, db_exists,
                   upstream, listed, raw, idle_updates, net, dag>>

NextTransform == Transform

SpecTransform == InitTransform /\ [][NextTransform]_vars

TrimmedTuple(row) ==
    [full_name |-> Strip(row.full_name), broadcast_name |-> Strip(row.broadcast_name),
     name_acronym |-> Strip(row.name_acronym)]

TrimmedTuples(frame) == {TrimmedTuple(frame[i]) : i \in DOMAIN frame}

\* C9: every call of transform_data returns one identity row per distinct
\* whitespace-trimmed (full_name, broadcast_name, name_acronym) tuple of the
\* driver input, the ids of the rows are exactly 1..n with no tuple under two
\* ids and no id on two tuples, and two calls on one input return the same
\* assignment.
C9_DriverIdBijection ==
    /\ \A c \in DOMAIN calls :
          LET ident == calls[c].returned.drivers_identity
              T == TrimmedTuples(raw.drivers)
          IN /\ Len(ident) = Cardinality(T)
             /\ {NameTuple(ident[i]) : i \in DOMAIN ident} = T
             /\ {ident[i].driver_id : i \in DOMAIN ident} = 1 .. Cardinality(T)
             /\ \A i, j \in DOMAIN ident :
                    (ident[i].driver_id = ident[j].driver_id)
                        <=> (NameTuple(ident[i]) = NameTuple(ident[j]))
    /\ \A c, e \in DOMAIN calls : calls[c].returned.drivers_identity = calls[e].returned.drivers_identity

\* two calls on an input in which one driver is received with and without
\* surrounding whitespace, next to a different driver
C9_Witness ==
    /\ Len(calls) = 2
    /\ Len(calls[2].returned.drivers_identity) = 2
    /\ \E i, j \in DOMAIN raw.drivers :
          /\ NameTuple(raw.drivers[i]) # NameTuple(raw.drivers[j])
          /\ TrimmedTuple(raw.drivers[i]) = TrimmedTuple(raw.drivers[j])

---------------------------------------------------------------------------
(* OpenF1 as the pipeline reads it                                         *)

\* the k-th race session of the sessions endpoint, one meeting a year
ApiSession(k) ==
    [session_key |-> 100 + k, meeting_key |-> k, circuit_key |-> k, year |-> 2022 + k,
     session_name |-> "Race"]

\* get_race_sessions: the race sessions listed so far
ListedSessions(n) == [k \in 1 .. n |-> ApiSession(k)]

\* car 1 is a Ferrari; car 44 belongs to the team renamed from year to year
CarTeam(d, k) ==
    IF d = 1 THEN "Ferrari"
    ELSE IF k = 1 THEN "AlphaTauri" ELSE IF k = 2 THEN "RB" ELSE "Racing Bulls"

CarColour(d) == IF d = 1 THEN <<"E", "8">> ELSE <<"6", "6">>

\* the drivers endpoint: in session k, person seat[k][d] drives car d
ApiDriverRow(k, d, person) ==
    [session_key |-> 100 + k, driver_number |-> d,
     full_name |-> <<person>>, broadcast_name |-> <<person>>, name_acronym |-> <<person>>,
     team_name |-> CarTeam(d, k), team_colour |-> CarColour(d)]

ApiDrivers(seat) ==
    Flatten([k \in 1 .. MaxApiSessions |->
        <<ApiDriverRow(k, 1, seat[k][1]), ApiDriverRow(k, 44, seat[k][44])>>])

\* who drives car 1 and car 44 in a session: the same pair, a newcomer in
\* car 44, or a driver who moves from car 1 to car 44
SeatOptions == {<<"A", "B">>, <<"A", "C">>, <<"B", "A">>}

Seatings ==
    [1 .. MaxApiSessions ->
        {[d \in DriverNumbers |-> IF d = 1 THEN o[1] ELSE o[2]] : o \in SeatOptions}]

Upstreams ==
    {[drivers |-> ApiDrivers(seat), lap1_null |-> b] : seat \in Seatings, b \in BOOLEAN}

\* the stints, laps and position endpoints of one session
ApiStints(sk) ==
    UNION {StintRows(sk, d, <<<<1, 1, "SOFT">>, <<2, 3, "MEDIUM">>>>) : d \in DriverNumbers}
ApiLaps(sk, null_first) ==
    UNION {LapRows(sk, d, 1, 3, null_first) : d \in DriverNumbers}
ApiPosition(sk) ==
    UNION {PosRows(sk, d, {<<0, IF d = 1 THEN 1 ELSE 2>>}) : d \in DriverNumbers}

\* the session_result endpoint of a race session: car 1 finishes, car 44 retires
ApiResults(sk) ==
    <<ReceivedResult(sk, 1, "False", "False", "False"),
      ReceivedResult(sk, 44, "True", "False", "False")>>

\* get_qual_sessions: the qualifying session of the meeting of a race session
QualKey(race_key) == race_key + 100
MeetingOf(race_key) == race_key - 100

\* the starting_grid endpoint answers under the qualifying key of a meeting
\* and is empty under its race key
ApiGrid(sk) ==
    IF sk > 200
    THEN <<ReceivedGridRow(sk, MeetingOf(sk - 100), 1), ReceivedGridRow(sk, MeetingOf(sk - 100), 44)>>
    ELSE <<>>

\* the keys of a frame of sessions, in its order
KeySeq(frame) == [i \in DOMAIN frame |-> frame[i].session_key]

\* pd.concat of the session_result frames fetched for the keys
FetchResults(keyseq) == Flatten([i \in DOMAIN keyseq |-> ApiResults(keyseq[i])])

\* pd.concat of the starting_grid frames: the race keys, then the qualifying keys
FetchGrid(race_keys) ==
    Flatten([i \in DOMAIN race_keys |-> ApiGrid(race_keys[i])])
    \o Flatten([i \in DOMAIN race_keys |-> ApiGrid(QualKey(race_keys[i]))])

---------------------------------------------------------------------------
(* scripts/load_f1_functional.py, the full load                            *)

\* extract_data step 5: lap 1 without a date_start gets the earliest
\* date_start of its session
FixLapDates(L) ==
    LET known == {r.date_start[1] : r \in {x \in L : x.date_start # NaT}}
        min_ts == IF known = {} THEN NaT
                  ELSE At(CHOOSE t \in known : \A u \in known : t <= u)
    IN {IF r.lap_number = 1 /\ r.date_start = NaT
        THEN [r EXCEPT !.date_start = min_ts] ELSE r : r \in L}

SessionKeysOf(frame) == {frame[i].session_key : i \in DOMAIN frame}

\* drivers[drivers["session_key"].isin(race_session_keys)]
DriversOf(up, race_keys) ==
    SelectSeq(up.drivers, LAMBDA x : x.session_key \in race_keys)

extract_data(n, up) ==
    LET race == ListedSessions(n)
    IN [race_sessions |-> race,
        drivers |-> DriversOf(up, SessionKeysOf(race)),
        results |-> FetchResults(KeySeq(race)),
        grid |-> FetchGrid(KeySeq(race)),
        stints |-> UNION {ApiStints(sk) : sk \in SessionKeysOf(race)},
        laps |-> UNION {FixLapDates(ApiLaps(sk, up.lap1_null)) : sk \in SessionKeysOf(race)},
        position |-> UNION {ApiPosition(sk) : sk \in SessionKeysOf(race)}]

ToTable(frame) == {frame[i] : i \in DOMAIN frame}

\* the tables of the store file
Store ==
    [race_sessions |-> race_sessions, teams |-> teams, team_seasons |-> team_seasons,
     drivers_identity |-> drivers_identity, driver_sessions |-> driver_sessions,
     results |-> results, grids |-> grids, stints |-> stints, laps |-> laps,
     position |-> position, tyre_changes |-> tyre_changes]

\* the tables create_schema creates again, and those among them with a key
\* in pk_map of append_to_db
SchemaTables ==
    {"race_sessions", "teams", "team_seasons", "drivers_identity", "driver_sessions",
     "results", "grids", "stints", "laps", "position"}

\* a mistaken create_schema: CREATE TABLE IF NOT EXISTS without the drops
create_schema_keep(store) == store

\* create_schema: DROP TABLE IF EXISTS for every table, tyre_changes
\* included, then CREATE TABLE for every table but tyre_changes
create_schema(store) ==
    [t \in DOMAIN store |->
        IF t = "tyre_changes" THEN [exists |-> FALSE, rows |-> <<>>] ELSE {}]

\* load_data: to_sql(if_exists="append") of every transformed table
load_data(store, t) ==
    [store EXCEPT !.race_sessions = @ \cup ToTable(t.race_sessions),
                  !.teams = @ \cup ToTable(t.teams),
                  !.team_seasons = @ \cup ToTable(t.team_seasons),
                  !.drivers_identity = @ \cup ToTable(t.drivers_identity),
                  !.driver_sessions = @ \cup ToTable(t.driver_sessions),
                  !.results = @ \cup ToTable(t.results),
                  !.grids = @ \cup ToTable(t.grids),
                  !.stints = @ \cup t.stints,
                  !.laps = @ \cup t.laps,
                  !.position = @ \cup t.position]

\* the store file holds the tables of s
StoreBecomes(s) ==
    /\ race_sessions' = s.race_sessions
    /\ teams' = s.teams
    /\ team_seasons' = s.team_seasons
    /\ drivers_identity' = s.drivers_identity
    /\ driver_sessions' = s.driver_sessions
    /\ results' = s.results
    /\ grids' = s.grids
    /\ stints' = s.stints
    /\ laps' = s.laps
    /\ position' = s.position
    /\ tyre_changes' = s.tyre_changes

\* a mistaken run_etl: it connects and recreates the schema before it
\* extracts
run_etl_schema_first(store, t, raised) ==
    IF raised # "none" THEN create_schema(store)
    ELSE load_data(create_schema(store), t)

\* run_etl: extract_data and transform_data come before sqlite3.connect;
\* when one of them raises, nothing of the store file is touched
run_etl(store, t, raised) ==
    IF raised # "none" THEN store
    ELSE load_data(create_schema(store), t)

\* run_etl: extract, transform, create_schema, load_data
FullLoad ==
    /\ pc \in {"done", "aborted"}
    /\ listed >= 1
    /\ \E t \in {transform_data(extract_data(listed, upstream))} :
       \E s \in {run_etl(Store, t, "none")} :
          /\ StoreBecomes(s)
          /\ transformed' = t
    /\ db_exists' = TRUE
    /\ runs' = 0
    /\ idle_updates' = 0
    /\ UNCHANGED <<pc, keys, record_summaries, windows, upstream, listed,
                   raw, calls, net, dag>>

---------------------------------------------------------------------------
(* update_f1_data.py, the incremental update                               *)

\* a mistaken get_new_sessions: it reads a sessions list one race ahead of
\* what OpenF1 lists
new_race_sessions_ahead(n, existing_session_keys) ==
    SelectSeq(ListedSessions(MaxApiSessions), LAMBDA x : x.session_key \notin existing_session_keys)

\* OpenF1 lists no race session that race_sessions does not hold
UpToDate ==
    \A k \in 1 .. listed : ApiSession(k).session_key \in {r.session_key : r \in race_sessions}

\* get_new_sessions: the listed race sessions the store does not hold
new_race_sessions(n, existing_session_keys) ==
    SelectSeq(ListedSessions(n), LAMBDA x : x.session_key \notin existing_session_keys)

\* extract_new_session_data: as extract_data for the new sessions, without
\* the repair of the lap dates
extract_new_session_data(new_race, up) ==
    [race_sessions |-> new_race,
     drivers |-> DriversOf(up, SessionKeysOf(new_race)),
     results |-> FetchResults(KeySeq(new_race)),
     grid |-> FetchGrid(KeySeq(new_race)),
     stints |-> UNION {ApiStints(sk) : sk \in SessionKeysOf(new_race)},
     laps |-> UNION {ApiLaps(sk, up.lap1_null) : sk \in SessionKeysOf(new_race)},
     position |-> UNION {ApiPosition(sk) : sk \in SessionKeysOf(new_race)}]

\* pd.read_sql of the key columns of a table: it raises when the store file
\* has no such table
read_keys(table, pk_cols, tables_exist) ==
    IF tables_exist
    THEN [raised |-> FALSE, keys |-> {[c \in DOMAIN pk_cols |-> e[pk_cols[c]]] : e \in table}]
    ELSE [raised |-> TRUE, keys |-> {}]

\* a mistaken safe_append: an upsert, the incoming row replaces the row of its key
safe_upsert(table, rows, pk_cols, tables_exist) ==
    LET pk(r) == [c \in DOMAIN pk_cols |-> r[pk_cols[c]]]
    IN {e \in table : \A r \in rows : pk(e) # pk(r)} \cup rows

\* a mistaken safe_append: without the try, the error of read_sql ends it
\* before anything is appended
safe_append_no_except(table, rows, pk_cols, tables_exist) ==
    LET pk(r) == [c \in DOMAIN pk_cols |-> r[pk_cols[c]]]
        existing == read_keys(table, pk_cols, tables_exist)
    IN IF existing.raised THEN table
       ELSE table \cup {r \in rows : pk(r) \notin existing.keys}

\* safe_append: the rows whose primary key is not among the keys read are
\* appended; when the read raises, no key counts as existing; to_sql
\* creates the table it does not find
safe_append(table, rows, pk_cols, tables_exist) ==
    LET pk(r) == [c \in DOMAIN pk_cols |-> r[pk_cols[c]]]
        existing == read_keys(table, pk_cols, tables_exist)
    IN table \cup {r \in rows : existing.raised \/ pk(r) \notin existing.keys}

\* pk_map of append_to_db: the key columns of the tables that have a key
pk_map ==
    [race_sessions |-> <<"session_key">>,
     teams |-> <<"team_id">>,
     team_seasons |-> <<"team_id", "year">>,
     drivers_identity |-> <<"driver_id">>,
     driver_sessions |-> <<"driver_number", "session_key">>,
     results |-> <<"session_key", "driver_number">>,
     position |-> <<"session_key", "driver_number", "date">>,
     grids |-> <<"session_key", "driver_number">>]

\* the transformed tables as append_to_db receives them
Incoming(t) ==
    [race_sessions |-> ToTable(t.race_sessions), teams |-> ToTable(t.teams),
     team_seasons |-> ToTable(t.team_seasons),
     drivers_identity |-> ToTable(t.drivers_identity),
     driver_sessions |-> ToTable(t.driver_sessions),
     results |-> ToTable(t.results), grids |-> ToTable(t.grids),
     stints |-> t.stints, laps |-> t.laps, position |-> t.position]

\* append_to_db: safe_append for a table with key columns, a plain append
\* for the others; tyre_changes is not among the tables
append_to_db(store, incoming, tables_exist) ==
    [t \in DOMAIN store |->
        IF t \in DOMAIN pk_map
        THEN safe_append(store[t], incoming[t], pk_map[t], tables_exist)
        ELSE IF t \in DOMAIN incoming THEN store[t] \cup incoming[t]
        ELSE store[t]]

\* get_existing_session_keys: no key when the read raises
get_existing_session_keys(tables_exist) ==
    IF tables_exist THEN {r.session_key : r \in race_sessions} ELSE {}

\* update_f1_data: nothing happens without a new race session; otherwise the
\* new sessions are transformed on their own, appended, and the deriver is
\* started; over a store file without tables every listed session is new
\* and to_sql creates the tables
Update ==
    /\ pc \in {"done", "aborted"}
    /\ \E new_race \in {new_race_sessions(listed, get_existing_session_keys(db_exists))} :
          IF new_race = <<>>
          THEN UNCHANGED <<race_sessions, teams, team_seasons, drivers_identity,
                           driver_sessions, results, grids, stints, laps, position,
                           tyre_changes, pc, runs, transformed, db_exists>>
          ELSE \E t \in {transform_data(extract_new_session_data(new_race, upstream))} :
               \E s \in {append_to_db(Store, Incoming(t), db_exists)} :
                  /\ StoreBecomes(s)
                  /\ transformed' = t
                  /\ db_exists' = TRUE
                  /\ pc' = "idle"
                  /\ runs' = 0
    /\ idle_updates' = IF UpToDate THEN Min2(idle_updates + 1, 2) ELSE 0
    /\ UNCHANGED <<keys, record_summaries, windows,
                   upstream, listed, raw, calls, net, dag>>

\* OpenF1 lists the next race session
Publish ==
    /\ pc \in {"done", "aborted"}
    /\ listed < MaxApiSessions
    /\ listed' = listed + 1
    /\ UNCHANGED <<race_sessions, stints, laps, position, tyre_changes, pc, keys,
                   record_summaries, windows, runs, teams, team_seasons,
                   drivers_identity, driver_sessions, results, grids, db_exists,
                   upstream, raw, transformed, calls, idle_updates, net, dag>>

InitEtl ==
    /\ StoreAtRest
    /\ upstream \in Upstreams
    /\ listed = 0
    /\ raw = <<>> /\ transformed = <<>> /\ calls = <<>>
    /\ net = <<>> /\ dag = <<>>

NextEtl ==
    Publish \/ FullLoad \/ Update \/ Start \/ SessionOk \/ SessionAbort \/ Persist \/ Rerun

SpecEtl == InitEtl /\ [][NextEtl]_vars

\* C10 (as claimed): in the loaded store a driver_id stands for one name
\* tuple and a name tuple for one driver_id, and every driver_sessions row
\* carries the driver_id of the name tuple of the driver who holds that
\* (driver_number, session_key) entry upstream.
C10_IdentityByNameTuple ==
    db_exists =>
        /\ \A a, b \in drivers_identity :
              (a.driver_id = b.driver_id) <=> (NameTuple(a) = NameTuple(b))
        /\ \A ds \in driver_sessions : \A i \in DOMAIN upstream.drivers :
              (/\ upstream.drivers[i].driver_number = ds.driver_number
               /\ upstream.drivers[i].session_key = ds.session_key)
                  => \E a \in drivers_identity :
                        /\ ds.driver_id = <<a.driver_id>>
                        /\ NameTuple(a) = TrimmedTuple(upstream.drivers[i])

---------------------------------------------------------------------------
(* Claims about transform_data                                             *)

\* what the driver input says of teams: lineage id, name, colour in lower
\* case and year of the session, row by row
TeamObservations(input) ==
    [i \in DOMAIN input.drivers |->
        [team_id |-> LineageId(input.drivers[i].team_name),
         team_name |-> input.drivers[i].team_name,
         team_colour |-> Lower(input.drivers[i].team_colour),
         year |-> YearOf(input.race_sessions, input.drivers[i].session_key)]]

ObservedTeamIds(obs) == {obs[i].team_id[1] : i \in {j \in DOMAIN obs : obs[j].team_id # <<>>}}

LatestYear(obs, id) ==
    CHOOSE y \in {obs[i].year : i \in {j \in DOMAIN obs : obs[j].team_id = <<id>>}} :
        \A i \in DOMAIN obs : obs[i].team_id = <<id>> => obs[i].year <= y

\* the rows of the latest year of a lineage id
LatestRows(obs, id) ==
    {i \in DOMAIN obs : obs[i].team_id = <<id>> /\ obs[i].year = LatestYear(obs, id)}

\* the first row that shows the name and colour of row i in the year of row i
FirstShown(obs, i) == CHOOSE j \in DOMAIN obs : obs[j] = obs[i] /\ \A k \in 1 .. (j - 1) : obs[k] # obs[i]

\* C11: every call of transform_data returns exactly one teams row for each
\* lineage id that TEAM_LINEAGE gives to a team name of the input and none
\* for other ids; the row holds the name and colour of the latest year seen
\* for the id, and of the rows of that year the one that comes last in
\* (team_id, year)-sorted order, which is the one first shown latest; two
\* calls on one input return the same teams.
C11_TeamsLatestYear ==
    /\ \A c \in DOMAIN calls :
          LET out == calls[c].returned.teams
              obs == TeamObservations(raw)
          IN /\ {out[k].team_id : k \in DOMAIN out} = ObservedTeamIds(obs)
             /\ \A k, l \in DOMAIN out : out[k].team_id = out[l].team_id => k = l
             /\ \A k \in DOMAIN out :
                    \E i \in LatestRows(obs, out[k].team_id) :
                        /\ out[k].team_name = obs[i].team_name
                        /\ out[k].team_colour = obs[i].team_colour
                        /\ \A j \in LatestRows(obs, out[k].team_id) :
                              FirstShown(obs, j) <= FirstShown(obs, i)
    /\ \A c, e \in DOMAIN calls : calls[c].returned.teams = calls[e].returned.teams

\* two calls on an input that shows lineage 9 as AlphaTauri in 2023 and
\* under two names in 2024
C11_Witness ==
    /\ Len(calls) = 2
    /\ \E i, j, k \in DOMAIN raw.drivers :
          /\ raw.drivers[i].team_name = "AlphaTauri"
          /\ raw.drivers[j].team_name = "RB"
          /\ raw.drivers[k].team_name = "Racing Bulls"
    /\ \E k \in DOMAIN calls[2].returned.teams : calls[2].returned.teams[k].team_id = 9

\* C13: the status that transform_data derives for a result row is "dsq"
\* whenever dsq is true, else "dns" whenever dns is true, else "dnf" whenever
\* dnf is true, else "finish", for every combination of the three flags.
C13_StatusPrecedence ==
    \A c \in DOMAIN calls :
        LET res == calls[c].locals.results
        IN /\ Len(res) = Len(raw.results)
           /\ \A i \in DOMAIN res :
                 res[i].status =
                    IF raw.results[i].dsq = "True" THEN "dsq"
                    ELSE IF raw.results[i].dns = "True" THEN "dns"
                    ELSE IF raw.results[i].dnf = "True" THEN "dnf"
                    ELSE "finish"

\* a call on results with a row flagged dnf and dsq, not dns, and a row with
\* no flag set
C13_Witness ==
    /\ calls # <<>>
    /\ \E i, j \in DOMAIN raw.results :
          /\ raw.results[i].dnf = "True" /\ raw.results[i].dns = "False"
          /\ raw.results[i].dsq = "True"
          /\ calls[1].locals.results[i].status = "dsq"
          /\ raw.results[j].dnf = "False" /\ raw.results[j].dns = "False"
          /\ raw.results[j].dsq = "False"
          /\ calls[1].locals.results[j].status = "finish"

---------------------------------------------------------------------------
(* Claims about the store after full loads and incremental updates         *)

\* the race sessions and driver entries of OpenF1 that the store has loaded
LoadedInput ==
    LET race == SelectSeq(ListedSessions(MaxApiSessions),
                          LAMBDA x : x.session_key \in {r.session_key : r \in race_sessions})
    IN [race_sessions |-> race, drivers |-> DriversOf(upstream, SessionKeysOf(race))]

\* C12 (as claimed): in the loaded store every teams row holds the name and
\* colour of the most recent year seen for its team_id among the sessions
\* loaded so far.
C12_TeamsCurrentName ==
    db_exists =>
        \A t \in teams :
            \E i \in LatestRows(TeamObservations(LoadedInput), t.team_id) :
                /\ t.team_name = TeamObservations(LoadedInput)[i].team_name
                /\ t.team_colour = TeamObservations(LoadedInput)[i].team_colour

\* C14 (as claimed): every row of the results table, as transform_data returns
\* it and as the store holds it, is the one row of its (session, driver) and
\* carries a status among finish, dnf, dns and dsq next to position,
\* number_of_laps, points, duration and gap_to_leader
C14_ResultsCarryStatus ==
    \A r \in results \cup (IF transformed = <<>> THEN {} ELSE ToTable(transformed.results)) :
        /\ {"position", "number_of_laps", "points", "duration", "gap_to_leader", "status"}
              \subseteq DOMAIN r
        /\ r.status \in {"finish", "dnf", "dns", "dsq"}
        /\ \A e \in results :
              (e.session_key = r.session_key /\ e.driver_number = r.driver_number) => e = r

\* the keys of the sessions named Race of a meeting
RaceKeysOfMeeting(race_df, mk) ==
    {race_df[i].session_key : i \in {j \in DOMAIN race_df :
        race_df[j].meeting_key = mk /\ race_df[j].session_name = "Race"}}

\* C15 (as claimed): every row of the grids table transform_data returns
\* has as session_key the key of the session named Race of the meeting of
\* the starting_grid row it comes from, whatever key the row was fetched under
C15_GridRekeyedToRace ==
    \A c \in DOMAIN calls :
        LET out == calls[c].returned.grids
        IN /\ Len(out) = Len(raw.grid)
           /\ \A i \in DOMAIN out :
                 /\ out[i].session_key # <<>>
                 /\ out[i].session_key[1] \in RaceKeysOfMeeting(raw.race_sessions, raw.grid[i].meeting_key)
                 /\ out[i].driver_number = raw.grid[i].driver_number
                 /\ out[i].position = raw.grid[i].position

\* an update run that found new race sessions and appended them
UpdateAppends ==
    /\ pc \in {"done", "aborted"} /\ pc' = "idle"
    /\ listed' = listed
    /\ race_sessions' # race_sessions

\* the rows of a table that have the key of row r in the columns pk_cols
SameKey(table, r, pk_cols) ==
    {e \in table : \A c \in DOMAIN pk_cols : e[pk_cols[c]] = r[pk_cols[c]]}

\* C16: an incremental update adds to every table with a primary key exactly
\* the incoming rows whose key columns match no row the table held, and every
\* row the table held is still there, unchanged
C16_AppendOnlyByKey ==
    [][UpdateAppends =>
        \A name \in DOMAIN pk_map :
            LET old == Store[name]
                new == Store'[name]
                incoming == Incoming(transformed')[name]
            IN /\ old \subseteq new
               /\ new \ old = {r \in incoming \ old : SameKey(old, r, pk_map[name]) = {}}
               /\ \A r \in incoming : SameKey(old, r, pk_map[name]) # {} =>
                     SameKey(new, r, pk_map[name]) = SameKey(old, r, pk_map[name])]_vars

\* after an update that appended a second race session: an incoming teams
\* row was skipped for its key, an incoming team_seasons row was inserted
C16_Witness ==
    /\ pc = "idle"
    /\ transformed # <<>>
    /\ Cardinality(race_sessions) = 2
    /\ \E r \in ToTable(transformed.teams) : r \notin teams /\ SameKey(teams, r, pk_map.teams) # {}
    /\ \E r \in ToTable(transformed.team_seasons) : r \in team_seasons

\* the tables that have a key in pk_map
KeyedTables == [name \in DOMAIN pk_map |-> Store[name]]

\* C17: an update run started while OpenF1 lists no race session absent from
\* race_sessions, the first such run and every one after it, leaves every
\* table with a primary key as it was
C17_IdleUpdateAddsNothing ==
    [][idle_updates' > idle_updates => KeyedTables' = KeyedTables]_vars

\* two update runs in a row found nothing new, over a loaded store
C17_Witness ==
    /\ idle_updates = 2
    /\ race_sessions # {} /\ results # {} /\ grids # {}
    /\ UpToDate

\* a run of run_etl that changed something
FullRebuild ==
    /\ pc \in {"done", "aborted"} /\ pc' = pc
    /\ listed' = listed
    /\ idle_updates' = 0
    /\ vars' # vars

\* C18: after a full rebuild every table holds exactly the rows of the
\* transformed table of its name, whatever the store held before, and
\* tyre_changes is gone; create_schema run twice leaves what it leaves run once
C18_RebuildReplacesStore ==
    [][FullRebuild =>
        /\ \A name \in SchemaTables : Store'[name] = Incoming(transformed')[name]
        /\ ~tyre_changes'.exists
        /\ create_schema(create_schema(Store)) = create_schema(Store)
        /\ \A name \in SchemaTables : create_schema(Store)[name] = {}]_vars

\* a full rebuild over a store that an earlier load had filled and the
\* deriver had written tyre_changes to
C18_Witness ==
    /\ pc = "done" /\ record_summaries # <<>>
    /\ ~tyre_changes.exists
    /\ transformed # <<>>
    /\ \A name \in SchemaTables : Store[name] = Incoming(transformed)[name]
    /\ Cardinality(race_sessions) = 2
    /\ \E r \in teams : r.team_name = "RB"

---------------------------------------------------------------------------
(* fetch and the extractors, request by request; times are in hundredths   *)
(* of a second                                                             *)

max_retries == 5

\* sleep_sec = 0.15
sleep_sec == 15

\* a mistaken backoff: one more second with every attempt
BackoffLinear(attempt) == 100 * (attempt + 1)

\* time.sleep(2 ** attempt)
Backoff(attempt) == 100 * 2^attempt

\* requests.get answers, answers 429, or something in the try block raises
Responses == {"ok", "429", "error"}

FetchOf(endpoint) == [op |-> "fetch", endpoint |-> endpoint]
SleepStep == [op |-> "sleep", endpoint |-> "none"]

Endpoints ==
    <<"session_result", "pit", "stints", "laps", "race_control", "weather",
      "position", "starting_grid">>

\* one pass of the loop over the race session keys
RaceSessionSteps == <<SleepStep>> \o [i \in DOMAIN Endpoints |-> FetchOf(Endpoints[i])]

\* one pass of the loop over the qualifying session keys
QualSessionSteps == <<SleepStep, FetchOf("starting_grid")>>

\* get_race_sessions
GetRaceSessionsSteps == <<FetchOf("meetings"), FetchOf("sessions")>>

\* extract_data, and get_new_sessions followed by extract_new_session_data,
\* for n race sessions with their qualifying sessions; update_f1_data returns
\* after get_new_sessions when there is no new race session
ExtractSteps(mode, n) ==
    IF mode = "update" /\ n = 0 THEN GetRaceSessionsSteps
    ELSE GetRaceSessionsSteps
         \o Flatten([k \in 1 .. n |-> RaceSessionSteps])
         \o Flatten([k \in 1 .. n |-> QualSessionSteps])
         \o <<FetchOf("drivers")>>

\* the steps of the extractor that is running
Plan == ExtractSteps(net.mode, net.sessions)

\* one pass of "for attempt in range(max_retries)" of fetch: the request,
\* then the return, or the sleep and the next pass, or the sleep and the raise
fetch_attempt(state, response) ==
    LET sent == IF state.attempt = 0 THEN 1 ELSE state.requests + 1
    IN IF response = "ok"
       THEN [state EXCEPT !.step = @ + 1, !.attempt = 0, !.requests = sent, !.gap = 0,
                          !.event = "request", !.response = response]
       ELSE [state EXCEPT !.attempt = @ + 1, !.requests = sent,
                          !.gap = Backoff(state.attempt),
                          !.status = IF state.attempt + 1 < max_retries
                                     THEN "running" ELSE "raised",
                          !.event = "request", !.response = response]

allButDag == <<race_sessions, stints, laps, position, tyre_changes, pc, keys,
               record_summaries, windows, runs, teams, team_seasons, drivers_identity,
               driver_sessions, results, grids, db_exists, upstream, listed, raw,
               transformed, calls, idle_updates, net>>

allButNet == <<race_sessions, stints, laps, position, tyre_changes, pc, keys,
               record_summaries, windows, runs, teams, team_seasons, drivers_identity,
               driver_sessions, results, grids, db_exists, upstream, listed, raw,
               transformed, calls, idle_updates, dag>>

FetchAttempt ==
    /\ net.status = "running"
    /\ net.step <= Len(Plan)
    /\ Plan[net.step].op = "fetch"
    /\ \E response \in Responses : net' = fetch_attempt(net, response)
    /\ UNCHANGED allButNet

\* time.sleep(sleep_sec) at the head of a pass over a session key
Sleep ==
    /\ net.status = "running"
    /\ net.step <= Len(Plan)
    /\ Plan[net.step].op = "sleep"
    /\ net' = [net EXCEPT !.step = @ + 1, !.gap = @ + sleep_sec, !.event = "sleep"]
    /\ UNCHANGED allButNet

\* the extractor returns the raw frames
Return ==
    /\ net.status = "running"
    /\ net.step > Len(Plan)
    /\ net' = [net EXCEPT !.status = "returned", !.event = "return"]
    /\ UNCHANGED allButNet

\* gap is the time slept since the last request, -1 before the first one
InitExtract ==
    /\ StoreAtRest
    /\ upstream = <<>> /\ listed = 0
    /\ raw = <<>> /\ transformed = <<>> /\ calls = <<>>
    /\ dag = <<>>
    /\ net \in {[mode |-> mode, sessions |-> n, step |-> 1, attempt |-> 0, requests |-> 0,
                 gap |-> -1, status |-> "running", event |-> "none", response |-> "none"]
                    : mode \in {"full", "update"}, n \in 0 .. MaxApiSessions}

NextExtract == FetchAttempt \/ Sleep \/ Return

SpecExtract == InitExtract /\ [][NextExtract]_vars

\* a request was issued in this step
Requested == net' # net /\ net'.event = "request"

\* C19: a call of fetch issues at most 5 requests; when the attempt with
\* index k fails, by a 429 or by an error, fetch sleeps 2^k seconds and goes
\* on with attempt k + 1, or raises after the fifth; at the first answer
\* that is a success the call is over; once fetch has raised, the extractor
\* does nothing more and never returns
C19_FetchBackoff ==
    [][/\ Requested =>
            /\ net'.requests = net.attempt + 1
            /\ net'.requests <= 5
            /\ net'.response = "ok" =>
                  /\ net'.step = net.step + 1 /\ net'.attempt = 0
                  /\ net'.status = "running"
            /\ net'.response \in {"429", "error"} =>
                  /\ net'.gap = 100 * 2^(net.attempt)
                  /\ net'.step = net.step
                  /\ net'.attempt = net.attempt + 1
                  /\ net'.status = IF net.attempt < 4 THEN "running" ELSE "raised"
       /\ net.status = "raised" => net' = net]_vars

\* fetch("laps") of the second race session has raised after five failures
C19_Witness ==
    /\ net.status = "raised"
    /\ net.requests = 5
    /\ net.gap = 1600
    /\ net.step > Len(GetRaceSessionsSteps \o RaceSessionSteps)
    /\ Plan[net.step] = FetchOf("laps")

\* C20 (as claimed): when the extractor issues a request that is not its
\* first, at least sleep_sec has been slept since the request before it
C20_DelayBetweenRequests ==
    [][Requested => (net.gap < 0 \/ net.gap >= sleep_sec)]_vars

---------------------------------------------------------------------------
(* dags/f1_pipeline_dag.py: one run of the DAG over the store files        *)

\* a path is a directory and a file name; "." is the working directory
DB_PATH == [dir |-> "/opt/airflow/data", name |-> "f1_data.db"]
SCRIPTS_PATH == "/opt/airflow/scripts"

\* run_etl(db_path="/opt/airflow/data/f1_data.db")
run_etl_db_path == [dir |-> "/opt/airflow/data", name |-> "f1_data.db"]

\* update_f1_data.py: DB_PATH = "f1_data.db"
update_DB_PATH == [dir |-> ".", name |-> "f1_data.db"]

\* create_tyre_changes.py: sqlite3.connect("f1_data.db")
deriver_db_path == [dir |-> ".", name |-> "f1_data.db"]

\* subprocess.run([sys.executable, "create_tyre_changes.py"])
deriver_script == [dir |-> ".", name |-> "create_tyre_changes.py"]

\* default_args["retries"]
retries == 1

\* the working directory of a bash task is not set by the DAG: it is the
\* data directory, the scripts directory, or a directory of its own
TmpDir == "/tmp/airflowtmp"
Dirs == {DB_PATH.dir, SCRIPTS_PATH, TmpDir}

\* a relative path is taken from the working directory
Resolve(path, cwd) == IF path.dir = "." THEN [path EXCEPT !.dir = cwd] ELSE path

\* the file f1_data.db of a directory: not there, there with no byte in it
\* (sqlite3.connect has created it), holding the loaded tables, holding the
\* loaded tables and tyre_changes
FileStates == {"absent", "empty", "loaded", "derived"}

Exists(file) == file # "absent"
GetSize(file) == IF file \in {"absent", "empty"} THEN 0 ELSE 1

\* sqlite3.connect creates the file it does not find
Connect(file) == IF file = "absent" THEN "empty" ELSE file

LoadTasks == {"run_initial_etl", "run_update_etl"}
Tasks == {"choose_etl_mode", "compute_tyre_changes", "run_app"} \cup LoadTasks

\* who opens a store file: the tasks, and the deriver update_f1_data starts
Openers == Tasks \cup {"subprocess"}
NoPath == [dir |-> "", name |-> ""]

\* a mistaken decide_etl_mode: the size of the file is not looked at
decide_by_existence(file) ==
    IF Exists(file) THEN "run_update_etl" ELSE "run_initial_etl"

\* decide_etl_mode
decide_etl_mode(file) ==
    IF Exists(file) /\ (IF Exists(file) THEN GetSize(file) ELSE 0) > 0
    THEN "run_update_etl" ELSE "run_initial_etl"

\* a task instance that raised is tried again while tries remain
AfterFailure(t) == IF dag.tries[t] <= retries THEN "up_for_retry" ELSE "failed"

\* a bash task in a directory of its own starts with no f1_data.db in it
FreshCwd(files) == IF dag.cwd = TmpDir THEN [files EXCEPT ![TmpDir] = "absent"] ELSE files

\* choose_etl_mode >> [run_initial_etl, run_update_etl]: the branch not
\* chosen is skipped
ChooseEtlMode ==
    /\ dag.state["choose_etl_mode"] = "none"
    /\ \E branch \in {decide_etl_mode(dag.files[DB_PATH.dir])} :
          dag' = [dag EXCEPT !.state = [t \in Tasks |->
                                    IF t = "choose_etl_mode" THEN "success"
                                    ELSE IF t \in LoadTasks /\ t # branch THEN "skipped"
                                    ELSE @[t]],
                             !.tries["choose_etl_mode"] = 1,
                             !.opened["choose_etl_mode"] = DB_PATH,
                             !.event = "decide"]
    /\ UNCHANGED allButDag

\* the chosen load task is started, or started again after a failure
StartLoad ==
    /\ dag.state["choose_etl_mode"] = "success"
    /\ \E t \in LoadTasks :
          /\ dag.state[t] \in {"none", "up_for_retry"}
          /\ dag' = [dag EXCEPT !.state[t] = "running", !.tries[t] = @ + 1,
                                !.files = FreshCwd(@), !.phase = "started",
                                !.event = "load_start"]
    /\ UNCHANGED allButDag

\* run_initial_etl: run_etl ends, or extract_data raises before the store
\* file is opened
RunInitialEtl ==
    /\ dag.state["run_initial_etl"] = "running"
    /\ \/ dag' = [dag EXCEPT !.state["run_initial_etl"] = "success",
                             !.files[run_etl_db_path.dir] = "loaded",
                             !.opened["run_initial_etl"] = run_etl_db_path,
                             !.phase = "returned", !.event = "load_end"]
       \/ dag' = [dag EXCEPT !.state["run_initial_etl"] = AfterFailure("run_initial_etl"),
                             !.phase = "raised", !.event = "load_failed"]
    /\ UNCHANGED allButDag

\* run_update_etl, update_f1_data up to append_to_db: a fetch raises, or no
\* race session is new, or the new sessions are appended; a file without
\* tables has no session, so every listed session is new
UpdateLoad ==
    /\ dag.state["run_update_etl"] = "running"
    /\ dag.phase = "started"
    /\ \E path \in {Resolve(update_DB_PATH, dag.cwd)} :
       \E file \in {Connect(dag.files[path.dir])} :
          \/ dag' = [dag EXCEPT !.state["run_update_etl"] = AfterFailure("run_update_etl"),
                                !.files[path.dir] = file,
                                !.opened["run_update_etl"] = path,
                                !.phase = "raised", !.event = "load_failed"]
          \/ /\ file \in {"loaded", "derived"}
             /\ dag' = [dag EXCEPT !.state["run_update_etl"] = "success",
                                   !.opened["run_update_etl"] = path,
                                   !.phase = "returned", !.event = "load_end"]
          \/ dag' = [dag EXCEPT !.files[path.dir] = IF file = "derived" THEN "derived" ELSE "loaded",
                                !.opened["run_update_etl"] = path,
                                !.phase = "appended", !.event = "appended"]
    /\ UNCHANGED allButDag

\* update_f1_data: subprocess.run of create_tyre_changes.py; without the
\* script in the working directory the CalledProcessError is caught
UpdateSubprocess ==
    /\ dag.state["run_update_etl"] = "running"
    /\ dag.phase = "appended"
    /\ IF Resolve(deriver_script, dag.cwd).dir = SCRIPTS_PATH
       THEN dag' = [dag EXCEPT !.opened["subprocess"] = Resolve(deriver_db_path, dag.cwd),
                               !.phase = "deriving", !.event = "derive_start"]
       ELSE dag' = [dag EXCEPT !.phase = "after_subprocess", !.event = "subprocess_failed"]
    /\ UNCHANGED allButDag

\* the deriver started by update_f1_data ends: tyre_changes is written, or
\* the script has raised and the CalledProcessError is caught
UpdateSubprocessEnd ==
    /\ dag.state["run_update_etl"] = "running"
    /\ dag.phase = "deriving"
    /\ \E path \in {Resolve(deriver_db_path, dag.cwd)} :
          \/ dag' = [dag EXCEPT !.files[path.dir] = "derived",
                                !.phase = "after_subprocess", !.event = "derive_end"]
          \/ dag' = [dag EXCEPT !.phase = "after_subprocess", !.event = "derive_failed"]
    /\ UNCHANGED allButDag

\* update_f1_data returns
UpdateReturn ==
    /\ dag.state["run_update_etl"] = "running"
    /\ dag.phase = "after_subprocess"
    /\ dag' = [dag EXCEPT !.state["run_update_etl"] = "success",
                          !.phase = "returned", !.event = "load_end"]
    /\ UNCHANGED allButDag

\* TriggerRule.NONE_FAILED_MIN_ONE_SUCCESS over the upstream tasks
AllDone(upstream_tasks) ==
    \A u \in upstream_tasks : dag.state[u] \in {"success", "skipped", "failed", "upstream_failed"}
NoneFailed(upstream_tasks) ==
    \A u \in upstream_tasks : dag.state[u] \notin {"failed", "upstream_failed"}
MinOneSuccess(upstream_tasks) ==
    \E u \in upstream_tasks : dag.state[u] = "success"

\* a task below a failed task is not run
UpstreamFailed ==
    /\ \E t \in {"compute_tyre_changes", "run_app"} :
       \E upstream_tasks \in {IF t = "run_app" THEN {"compute_tyre_changes"} ELSE LoadTasks} :
          /\ dag.state[t] = "none"
          /\ AllDone(upstream_tasks)
          /\ ~NoneFailed(upstream_tasks)
          /\ dag' = [dag EXCEPT !.state[t] = "upstream_failed", !.event = "not_run"]
    /\ UNCHANGED allButDag

\* compute_tyre_changes is started, or started again after a failure
StartDeriver ==
    /\ dag.state["compute_tyre_changes"] \in {"none", "up_for_retry"}
    /\ AllDone(LoadTasks) /\ NoneFailed(LoadTasks) /\ MinOneSuccess(LoadTasks)
    /\ dag' = [dag EXCEPT !.state["compute_tyre_changes"] = "running",
                          !.tries["compute_tyre_changes"] = @ + 1,
                          !.files = FreshCwd(@),
                          !.opened["compute_tyre_changes"] = Resolve(deriver_db_path, dag.cwd),
                          !.event = "derive_start"]
    /\ UNCHANGED allButDag

\* create_tyre_changes.py: over a file without tables read_sql raises; over
\* the loaded tables tyre_changes is written, or merge_asof raises
RunDeriver ==
    /\ dag.state["compute_tyre_changes"] = "running"
    /\ \E path \in {Resolve(deriver_db_path, dag.cwd)} :
       \E file \in {Connect(dag.files[path.dir])} :
          \/ /\ file \in {"loaded", "derived"}
             /\ dag' = [dag EXCEPT !.state["compute_tyre_changes"] = "success",
                                   !.files[path.dir] = "derived", !.event = "derive_end"]
          \/ dag' = [dag EXCEPT !.state["compute_tyre_changes"] =
                                    AfterFailure("compute_tyre_changes"),
                                !.files[path.dir] = file, !.event = "derive_failed"]
    /\ UNCHANGED allButDag

\* run_app: streamlit is started in the background and the task ends
RunApp ==
    /\ dag.state["run_app"] = "none"
    /\ AllDone({"compute_tyre_changes"}) /\ NoneFailed({"compute_tyre_changes"})
    /\ MinOneSuccess({"compute_tyre_changes"})
    /\ dag' = [dag EXCEPT !.state["run_app"] = "success", !.tries["run_app"] = 1,
                          !.event = "app_start"]
    /\ UNCHANGED allButDag

\* a run begins over whatever earlier runs left in the three directories
InitPipeline ==
    /\ StoreAtRest
    /\ upstream = <<>> /\ listed = 0
    /\ raw = <<>> /\ transformed = <<>> /\ calls = <<>>
    /\ net = <<>>
    /\ dag \in {[cwd |-> cwd, files |-> files,
                 state |-> [t \in Tasks |-> "none"], tries |-> [t \in Tasks |-> 0],
                 opened |-> [o \in Openers |-> NoPath],
                 phase |-> "none", event |-> "none"]
                    : cwd \in Dirs,
                      files \in {f \in [Dirs -> FileStates] : f[TmpDir] = "absent"}}

NextPipeline ==
    \/ ChooseEtlMode \/ StartLoad \/ RunInitialEtl
    \/ UpdateLoad \/ UpdateSubprocess \/ UpdateSubprocessEnd \/ UpdateReturn
    \/ UpstreamFailed \/ StartDeriver \/ RunDeriver \/ RunApp

SpecPipeline == InitPipeline /\ [][NextPipeline]_vars

\* the load task the branch chose
SelectedLoad == CHOOSE t \in LoadTasks : dag.state[t] # "skipped"

\* C21: choose_etl_mode selects run_update_etl exactly when the store file
\* exists with a size above zero and run_initial_etl in every other case,
\* and exactly one of the two load tasks is left to run
C21_ModeByStoreFile ==
    [][(dag' # dag /\ dag'.event = "decide") =>
        LET file == dag.files[DB_PATH.dir]
            left == {t \in LoadTasks : dag'.state[t] # "skipped"}
        IN /\ Cardinality(left) = 1
           /\ ("run_update_etl" \in left) <=> (file \in {"loaded", "derived"})
           /\ ("run_initial_etl" \in left) <=> (file \in {"absent", "empty"})]_vars

\* the branch was taken over a store file of no byte: the full load is chosen
C21_Witness ==
    /\ dag # <<>>
    /\ dag.event = "decide"
    /\ dag.files[DB_PATH.dir] = "empty"
    /\ dag.state["run_initial_etl"] = "none" /\ dag.state["run_update_etl"] = "skipped"

C29_OneStore ==
    dag # <<>> => \A o \in Openers : dag.opened[o] \in {NoPath, DB_PATH}

\* an update run that went as far as append_to_db and started the deriver
UpdateRan ==
    /\ pc \in {"done", "aborted"} /\ pc' = "idle"
    /\ listed' = listed
    /\ transformed' # transformed

\* C23: when the keys of a table cannot be read, the store file having no
\* tables, safe_append does not raise and appends every incoming row: the
\* update goes on to its end and every keyed table holds all the rows of
\* the transformed table
C23_UnreadableKeysAppendAll ==
    [][(UpdateRan /\ ~db_exists) =>
        /\ db_exists'
        /\ \A name \in DOMAIN pk_map :
              /\ read_keys(Store[name], pk_map[name], db_exists).raised
              /\ Incoming(transformed')[name] \subseteq Store'[name]]_vars

\* a store that an update filled from a file without tables: the one
\* session held has the lap 1 without date that only extract_data repairs
C23_Witness ==
    /\ db_exists
    /\ Cardinality(race_sessions) = 1
    /\ \E r \in laps : r.lap_number = 1 /\ r.date_start = NaT
    /\ results # {} /\ teams # {} /\ grids # {}

---------------------------------------------------------------------------
(* a raw table that is empty or has no meeting_key                          *)

\* the tables transform_data returns
OutputTables ==
    {"race_sessions", "teams", "team_seasons", "drivers_identity", "driver_sessions",
     "results", "grids", "stints", "laps", "position"}

\* the raw input has a table that is empty or lacks meeting_key
SparseInput ==
    \/ raw.results = <<>> \/ raw.grid = <<>> \/ raw.stints = {}
    \/ "meeting_key" \notin Columns(raw.grid)
    \/ \E r \in raw.stints : "meeting_key" \notin DOMAIN r

\* C24: transform_data does not raise on a raw input with a table that is
\* empty or lacks meeting_key, the starting grid included: it returns all
\* its output tables
C24_ToleratesSparseInput ==
    (SparseInput /\ transformed # <<>>) =>
        /\ "raised" \notin DOMAIN transformed
        /\ DOMAIN transformed = OutputTables

\* the guarded step alone: stints without meeting_key pass, with the grid
\* and the results as they are fetched
C24_GuardedStepTolerated ==
    (/\ raw.results # <<>> /\ "meeting_key" \in Columns(raw.grid)
     /\ \E r \in raw.stints : "meeting_key" \notin DOMAIN r
     /\ transformed # <<>>) =>
        /\ DOMAIN transformed = OutputTables
        /\ transformed.stints = raw.stints

---------------------------------------------------------------------------
(* runs that end with an exception                                         *)

\* the order in which append_to_db writes the tables: the order of pk_map
append_order ==
    <<"race_sessions", "teams", "team_seasons", "drivers_identity", "driver_sessions",
      "results", "stints", "laps", "position", "grids">>

\* append_to_db ended by an exception after k tables: to_sql has committed
\* every table written before
append_prefix(store, incoming, tables_exist, k) ==
    LET full == append_to_db(store, incoming, tables_exist)
    IN [t \in DOMAIN store |->
           IF \E i \in 1 .. k : append_order[i] = t THEN full[t] ELSE store[t]]

\* the stages of run_etl that can raise before the store file is opened
RaisingStages == {"extract_data", "transform_data"}

\* update_f1_data when an insert of append_to_db raises: the exception
\* leaves update_f1_data, the deriver is not started
UpdateFails ==
    /\ pc \in {"done", "aborted"}
    /\ db_exists
    /\ \E new_race \in {new_race_sessions(listed, get_existing_session_keys(db_exists))} :
          /\ new_race # <<>>
          /\ \E k \in 1 .. (Len(append_order) - 1) :
             \E t \in {transform_data(extract_new_session_data(new_race, upstream))} :
             \E s \in {append_prefix(Store, Incoming(t), db_exists, k)} :
                /\ StoreBecomes(s)
                /\ transformed' = t
    /\ idle_updates' = 0
    /\ UNCHANGED <<pc, runs, keys, record_summaries, windows, db_exists,
                   upstream, listed, raw, calls, net, dag>>

\* run_etl when extract_data or transform_data raises, a fetch out of
\* retries for example
RunEtlFails ==
    /\ pc \in {"done", "aborted"}
    /\ listed >= 1
    /\ \E stage \in RaisingStages :
       \E s \in {run_etl(Store, <<>>, stage)} :
          /\ StoreBecomes(s)
          /\ transformed' = Raised(stage)
    /\ UNCHANGED <<pc, runs, keys, record_summaries, windows, db_exists,
                   upstream, listed, raw, calls, idle_updates, net, dag>>

\* one upstream is enough here: every session seats the same two drivers
\* and every lap 1 has its date
FaultUpstreams ==
    {up \in Upstreams :
        /\ ~up.lap1_null
        /\ up.drivers = ApiDrivers([k \in 1 .. MaxApiSessions |->
                             [d \in DriverNumbers |-> IF d = 1 THEN "A" ELSE "B"]])}

InitFaults ==
    /\ StoreAtRest
    /\ upstream \in FaultUpstreams
    /\ listed = 0
    /\ raw = <<>> /\ transformed = <<>> /\ calls = <<>>
    /\ net = <<>> /\ dag = <<>>

NextFaults == NextEtl \/ UpdateFails \/ RunEtlFails

SpecFaults == InitFaults /\ [][NextFaults]_vars

\* the per-session tables
PerSessionTables == {"driver_sessions", "results", "grids", "stints", "laps", "position"}

\* an update that ran to its end: it appended and started the deriver, or
\* it found no new race session
UpdateSucceeds ==
    /\ "raised" \notin DOMAIN transformed'
    /\ UpdateRan \/ (idle_updates' > idle_updates)

\* C25: after an incremental update that ran to its end, also one that
\* follows an update that failed while writing, the store holds every race
\* session OpenF1 lists with rows in every per-session table
C25_UpdateRecoversFailedUpdate ==
    [][UpdateSucceeds =>
        \A i \in 1 .. listed :
            /\ \E r \in race_sessions' : r.session_key = ApiSession(i).session_key
            /\ \A name \in PerSessionTables :
                  \E r \in Store'[name] :
                     r.session_key = IF name = "grids" THEN <<ApiSession(i).session_key>>
                                     ELSE ApiSession(i).session_key]_vars

\* C30: when extract_data or transform_data raises in run_etl, the store is
\* left as it was: no table is dropped, created or written
C30_FailedRebuildLeavesStore ==
    [][("raised" \in DOMAIN transformed' /\ "raised" \notin DOMAIN transformed) =>
        /\ Store' = Store
        /\ db_exists' = db_exists]_vars

\* a rebuild has failed over a store that holds sessions and their rows
C30_Witness ==
    /\ "raised" \in DOMAIN transformed
    /\ db_exists
    /\ race_sessions # {} /\ results # {} /\ laps # {}

---------------------------------------------------------------------------
(* the clamped windows of the deriver against the unclamped ones           *)

\* the laps of a driver with a lap number from a to b
LapsBetween(sk, d, a, b) ==
    {l \in LapsOf(sk, d) : a <= l.lap_number /\ l.lap_number <= b}

\* C26: for every record, the laps the clamped windows select are the laps
\* of the driver in the unclamped windows [c-1, c] and [c+2, c+5], and
\* pos_before and pos_after are the means over the unclamped windows
C26_ClampingChangesNothing ==
    /\ Aligned
    /\ \A i \in 1 .. Len(Emitted) :
          LET r == Emitted[i]
              w == windows[i]
              c == r.tyre_change_lap
          IN /\ LapsBetween(r.session_key, r.driver, w.before_start, w.before_end)
                    = LapsBetween(r.session_key, r.driver, c - 1, c)
             /\ LapsBetween(r.session_key, r.driver, w.after_start, w.after_end)
                    = LapsBetween(r.session_key, r.driver, c + 2, c + 5)
             /\ IsMeanOf(r.pos_before, WindowLaps(r.session_key, r.driver, c - 1, c))
             /\ IsMeanOf(r.pos_after, WindowLaps(r.session_key, r.driver, c + 2, c + 5))

\* a record with both windows clamped and neither empty
C26_Witness ==
    \E i \in 1 .. Len(Emitted) :
        LET r == Emitted[i]
            w == windows[i]
            c == r.tyre_change_lap
        IN /\ Len(windows) = Len(Emitted)
           /\ w.before_start > c - 1
           /\ w.after_end < c + 5
           /\ r.pos_before.tag = "float"
           /\ r.pos_after.tag = "float"

---------------------------------------------------------------------------
(* driver_sessions against drivers_identity and teams                      *)

\* C27: every driver_sessions row that transform_data returns has a
\* driver_id, and the row of a received driver entry carries the driver_id
\* of the identity row of the entry's trimmed name tuple
C27_DriverSessionsCarryIdentity ==
    \A c \in DOMAIN calls :
        LET ds == calls[c].returned.driver_sessions
            ident == calls[c].returned.drivers_identity
        IN /\ \A k \in DOMAIN ds : ds[k].driver_id # <<>>
           /\ \A i \in DOMAIN raw.drivers :
                 \E k \in DOMAIN ds, j \in DOMAIN ident :
                    /\ ds[k].driver_number = raw.drivers[i].driver_number
                    /\ ds[k].session_key = raw.drivers[i].session_key
                    /\ NameTuple(ident[j]) = TrimmedTuple(raw.drivers[i])
                    /\ ds[k].driver_id = <<ident[j].driver_id>>

\* the same over the inputs whose names come without surrounding whitespace
C27_HoldsForTrimmedNames ==
    (\A i \in DOMAIN raw.drivers : NameTuple(raw.drivers[i]) = TrimmedTuple(raw.drivers[i]))
        => C27_DriverSessionsCarryIdentity

\* C28: every team_seasons row and every driver_sessions row that
\* transform_data returns has a team_id, and teams has a row of that id,
\* also for a team_name TEAM_LINEAGE does not list
C28_TeamIdsResolve ==
    \A c \in DOMAIN calls :
        LET out == calls[c].returned
            team_ids == {out.teams[k].team_id : k \in DOMAIN out.teams}
        IN /\ \A k \in DOMAIN out.team_seasons :
                 /\ out.team_seasons[k].team_id # <<>>
                 /\ out.team_seasons[k].team_id[1] \in team_ids
           /\ \A k \in DOMAIN out.driver_sessions :
                 /\ out.driver_sessions[k].team_id # <<>>
                 /\ out.driver_sessions[k].team_id[1] \in team_ids

\* the same over the inputs whose team names TEAM_LINEAGE lists
C28_HoldsForListedTeams ==
    (\A i \in DOMAIN raw.drivers : raw.drivers[i].team_name \in DOMAIN TEAM_LINEAGE)
        => C28_TeamIdsResolve

====
